---------------------------- MODULE Spec2Model ----------------------------
(***************************************************************************)
(* A model of yosys2digitaljs: the conversion of a Yosys JSON netlist into *)
(* a DigitalJS circuit (src/unnamed/part_004, the TypeScript core).        *)
(*                                                                         *)
(* Encoding of values.                                                     *)
(*  - A bit (Yosys.Bit) is an integer: the net identifiers are the         *)
(*    integers >= 2 as in the JSON; the constant characters "0", "1", "x", *)
(*    "z" are CharBit["0"] = 0, CharBit["1"] = 1, CharBit["x"] = -1 and    *)
(*    CharBit["z"] = -2; the names `bit${pn}` made by gen_bitname are      *)
(*    GenBit(pn) <= -10.  The input never holds the numbers 0 and 1.       *)
(*  - A device id `dev${n}` is the number n; devices[n + 1] is the device  *)
(*    and devnets[n + 1] its port -> net map.                              *)
(*  - A JSON constant (number | string) is [num |-> v] or [str |-> s],     *)
(*    with s the string as a sequence of one-character strings.            *)
(*  - A HashMap keyed by bit vectors is a sequence of entries in insertion *)
(*    order, looked up by element-wise equality of the key.                *)
(*  - The source positions (netsrc, source_positions) are left out: no     *)
(*    device, net or connector depends on them.                            *)
(***************************************************************************)
EXTENDS Integers, Sequences, FiniteSets, TLC

VARIABLES
    data,       \* obj: the Yosys.Output being converted, a sequence of [name, mod]
    data0,      \* the value of obj when yosys2digitaljs was first called
    run,        \* which call of yosys2digitaljs on obj is running (1, 2, ...)
    pc,         \* position in yosys2digitaljs / yosys_to_digitaljs_mod
    mi,         \* index in Object.entries(data.modules) of the module being converted
    pos,        \* index of the port / cell being processed in the current loop
    nets,       \* nets: HashMap<Net, NetInfo>
    netnames,   \* netnames: HashMap<Net, string[]>
    bits,       \* bits: Map<Bit, BitInfo>
    devnets,    \* devnets: Map<string, Map<string, Net>>
    n,          \* n: the device counter of gen_name
    pn,         \* pn: the bit-name counter of gen_bitname
    devices,    \* mout.devices
    connectors, \* mout.connectors
    warnings,   \* the nets reported by console.warn('Undriven net ...')
    out,        \* out of yosys_to_digitaljs: module name -> Digitaljs.Module
    tie,        \* how the engine's Array.prototype.sort orders elements that sortDesc cannot order
    toporder,   \* toporder in yosys2digitaljs
    output,     \* the value returned by yosys2digitaljs
    err,        \* the exception that ended the call, "none" while there is none
    calls,      \* what the calls on obj that have ended returned or threw, oldest first
    susp        \* the yosys_to_digitaljs_mod calls that wait while another one runs

vars == <<data, data0, run, pc, mi, pos, nets, netnames, bits, devnets, n, pn,
          devices, connectors, warnings, out, tie, toporder, output, err, calls, susp>>

---------------------------------------------------------------------------
(* Sequences                                                               *)

Range(f) == {f[x] : x \in DOMAIN f}

Min(a, b) == IF a < b THEN a ELSE b

\* Array.prototype.slice(a, b) for 0 <= a
slice(arr, a, b) == SubSeq(arr, a + 1, Min(b, Len(arr)))

\* Array.prototype.reverse
reverse(arr) == [i \in 1..Len(arr) |-> arr[Len(arr) + 1 - i]]

\* Array(k).fill(v)
fill(k, v) == [i \in 1..k |-> v]

\* map.set(k, v) / obj[k] = v on a map given as a function
Put(f, k, v) == [x \in (DOMAIN f) \cup {k} |-> IF x = k THEN v ELSE f[x]]

\* delete obj[k]
Delete(f, k) == [x \in (DOMAIN f) \ {k} |-> f[x]]

---------------------------------------------------------------------------
(* Bits and JSON constants                                                 *)

CharBit == [c \in {"0", "1", "x", "z"} |->
              CASE c = "0" -> 0 [] c = "1" -> 1 [] c = "x" -> -1 [] c = "z" -> -2]

ConstChars == {CharBit[c] : c \in DOMAIN CharBit}

\* bit.toString() for a constant bit
BitChar(bit) == CHOOSE c \in DOMAIN CharBit : CharBit[c] = bit

GenBit(k) == -10 - k

\* x > 1 on a bit: false for "0", "1", "x", "z" and for `bit${k}` (NaN)
GreaterThanOne(x) == x > 1

constbit(bit) == bit \in ConstChars

JNum(v) == [num |-> v]

JStr(s) == [str |-> s]

RECURSIVE parseInt2(_)
\* Number.parseInt(str, 2) of a string of binary digits
parseInt2(str) ==
    IF Len(str) = 0 THEN 0
    ELSE 2 * parseInt2(SubSeq(str, 1, Len(str) - 1)) + (IF str[Len(str)] = "1" THEN 1 ELSE 0)

decode_json_number(param) ==
    IF "str" \in DOMAIN param THEN parseInt2(param.str) ELSE param.num

---------------------------------------------------------------------------
(* Digitaljs.Port, NetInfo and the state of one yosys_to_digitaljs_mod call *)

Port(d, p) == [id |-> d, port |-> p]

\* net.source === undefined
NoPort == [id |-> -1, port |-> "undefined"]

\* the name of an unnamed net (net.name === undefined)
NoName == "undefined"

\* 'in' + k
InPort(k) == "in" \o ToString(k)

\* the variables of the running yosys_to_digitaljs_mod call, as one record;
\* cell is the cell being lowered (an object of the input, changed in place)
Cv == [nets |-> nets, netnames |-> netnames, bits |-> bits, devnets |-> devnets,
       n |-> n, pn |-> pn, devices |-> devices, connectors |-> connectors,
       warnings |-> warnings, err |-> err, cell |-> <<>>]

Throw(s, e) == [s EXCEPT !.err = e]

Ok(s) == s.err = "none"

\* the position of key k in a HashMap, 0 if absent
Lookup(map, k) ==
    IF \E i \in 1..Len(map) : map[i].key = k
    THEN CHOOSE i \in 1..Len(map) : map[i].key = k /\ \A j \in 1..(i - 1) : map[j].key # k
    ELSE 0

gen_name(s) == [s EXCEPT !.n = @ + 1, !.devnets = Append(@, <<>>)]

gen_bitname(s) == [s EXCEPT !.pn = @ + 1]

\* get_net that names a new net after the last of the names of its vector
get_net_last_name(s, k) ==
    IF Lookup(s.nets, k) # 0 THEN s
    ELSE LET i == Lookup(s.netnames, k)
         IN [s EXCEPT !.nets = Append(@,
                [key |-> k, source |-> NoPort, targets |-> <<>>,
                 name |-> IF i # 0 THEN s.netnames[i].names[Len(s.netnames[i].names)]
                          ELSE NoName])]

get_net(s, k) ==
    IF Lookup(s.nets, k) # 0 THEN s
    ELSE LET i == Lookup(s.netnames, k)
         IN [s EXCEPT !.nets = Append(@,
                [key |-> k, source |-> NoPort, targets |-> <<>>,
                 name |-> IF i # 0 THEN s.netnames[i].names[1] ELSE NoName])]

\* bits.set(bit, {id: d, port: p, num: nbit}) for every [nbit, bit] of k.entries()
SetBits(b, k, d, p) ==
    [x \in (DOMAIN b) \cup Range(k) |->
        IF x \in Range(k)
        THEN [id |-> d, port |-> p,
              num |-> (CHOOSE i \in 1..Len(k) : k[i] = x /\ \A j \in (i + 1)..Len(k) : k[j] # x) - 1]
        ELSE b[x]]

\* add_net_source without the test of net.source
add_net_source_overwrite(s, k, d, p, primary) ==
    IF ~Ok(s) \/ Len(k) = 0 THEN s
    ELSE LET s1 == get_net(s, k)
             i == Lookup(s1.nets, k)
         IN [s1 EXCEPT !.nets[i].source = Port(d, p),
                       !.bits = IF primary THEN SetBits(@, k, d, p) ELSE @,
                       !.devnets[d + 1] = Put(@, p, k)]

\* add_net_source without the assignment to net.source
add_net_source_bits_only(s, k, d, p, primary) ==
    IF ~Ok(s) \/ Len(k) = 0 THEN s
    ELSE LET s1 == get_net(s, k)
         IN [s1 EXCEPT !.bits = IF primary THEN SetBits(@, k, d, p) ELSE @,
                       !.devnets[d + 1] = Put(@, p, k)]

\* add_net_source that records the provenance of every source, primary or not
add_net_source_all_primary(s, k, d, p, primary) ==
    IF ~Ok(s) \/ Len(k) = 0 THEN s
    ELSE LET s1 == get_net(s, k)
             i == Lookup(s1.nets, k)
         IN IF s1.nets[i].source # NoPort
            THEN Throw(s1, "Multiple sources driving net")
            ELSE [s1 EXCEPT !.nets[i].source = Port(d, p),
                            !.bits = SetBits(@, k, d, p),
                            !.devnets[d + 1] = Put(@, p, k)]

\* add_net_source without the return for an empty vector
add_net_source_empty_too(s, k, d, p, primary) ==
    IF ~Ok(s) THEN s
    ELSE LET s1 == get_net(s, k)
             i == Lookup(s1.nets, k)
         IN IF s1.nets[i].source # NoPort
            THEN Throw(s1, "Multiple sources driving net")
            ELSE [s1 EXCEPT !.nets[i].source = Port(d, p),
                            !.bits = IF primary THEN SetBits(@, k, d, p) ELSE @,
                            !.devnets[d + 1] = Put(@, p, k)]

add_net_source(s, k, d, p, primary) ==
    IF ~Ok(s) \/ Len(k) = 0 THEN s
    ELSE LET s1 == get_net(s, k)
             i == Lookup(s1.nets, k)
         IN IF s1.nets[i].source # NoPort
            THEN Throw(s1, "Multiple sources driving net")
            ELSE [s1 EXCEPT !.nets[i].source = Port(d, p),
                            !.bits = IF primary THEN SetBits(@, k, d, p) ELSE @,
                            !.devnets[d + 1] = Put(@, p, k)]

\* add_net_target that pushes the target on the net twice
add_net_target_twice(s, k, d, p) ==
    IF ~Ok(s) \/ Len(k) = 0 THEN s
    ELSE LET s1 == get_net(s, k)
             i == Lookup(s1.nets, k)
         IN [s1 EXCEPT !.nets[i].targets = Append(Append(@, Port(d, p)), Port(d, p)),
                       !.devnets[d + 1] = Put(@, p, k)]

add_net_target(s, k, d, p) ==
    IF ~Ok(s) \/ Len(k) = 0 THEN s
    ELSE LET s1 == get_net(s, k)
             i == Lookup(s1.nets, k)
         IN [s1 EXCEPT !.nets[i].targets = Append(@, Port(d, p)),
                       !.devnets[d + 1] = Put(@, p, k)]

\* add_device returns the new id, which is s.n before the call
add_device(s, dev) ==
    IF ~Ok(s) THEN s
    ELSE [gen_name(s) EXCEPT !.devices = Append(@, dev)]

RECURSIVE add_busgroup_targets(_, _, _, _)
add_busgroup_targets(s, groups, dname, gn) ==
    IF gn >= Len(groups) THEN s
    ELSE add_busgroup_targets(add_net_target(s, groups[gn + 1], dname, InPort(gn)),
                              groups, dname, gn + 1)

add_busgroup(s, nbits, groups) ==
    IF ~Ok(s) THEN s
    ELSE LET s1 == get_net(s, nbits)
         IN IF s1.nets[Lookup(s1.nets, nbits)].source # NoPort THEN s1
            ELSE LET dname == s1.n
                     s2 == add_device(s1, [type |-> "BusGroup",
                                           groups |-> [g \in 1..Len(groups) |-> Len(groups[g])]])
                     s3 == add_net_source(s2, nbits, dname, "out", FALSE)
                 IN add_busgroup_targets(s3, groups, dname, 0)

---------------------------------------------------------------------------
(* Tables of cell types                                                    *)

unary_gates == {"$not", "$neg", "$pos", "$reduce_and", "$reduce_or", "$reduce_xor",
                "$reduce_xnor", "$reduce_bool", "$logic_not"}

binary_gates == {"$and", "$or", "$xor", "$xnor",
                 "$add", "$sub", "$mul", "$div", "$mod", "$pow",
                 "$lt", "$le", "$eq", "$ne", "$ge", "$gt", "$eqx", "$nex",
                 "$shl", "$shr", "$sshl", "$sshr", "$shift", "$shiftx",
                 "$logic_and", "$logic_or"}

\* the keys of gate_subst that have neither a port map nor a wiring of their own
UnwiredGates == {"$nand", "$nor", "$reduce_nand", "$reduce_nor", "$repeater",
                 "$constant", "$clock", "$button", "$lamp", "$numdisplay",
                 "$numentry", "$input", "$output", "$busgroup", "$busungroup",
                 "$busslice", "$zeroextend", "$signextend"}

\* the map from the cell types to the device types
gate_subst ==
    [t \in unary_gates \cup binary_gates \cup UnwiredGates \cup
           {"$mux", "$pmux", "$lut", "$mem", "$mem_v2", "$fsm",
            "$dff", "$dffe", "$adff", "$adffe", "$sdff", "$sdffe", "$sdffce",
            "$dlatch", "$adlatch", "$sr", "$dffsr", "$dffsre", "$aldff", "$aldffe"} |->
        CASE t = "$not" -> "Not" [] t = "$and" -> "And" [] t = "$or" -> "Or"
          [] t = "$nand" -> "Nand" [] t = "$nor" -> "Nor"
          [] t = "$reduce_nand" -> "NandReduce" [] t = "$reduce_nor" -> "NorReduce"
          [] t = "$repeater" -> "Repeater" [] t = "$constant" -> "Constant"
          [] t = "$clock" -> "Clock" [] t = "$button" -> "Button"
          [] t = "$lamp" -> "Lamp" [] t = "$numdisplay" -> "NumDisplay"
          [] t = "$numentry" -> "NumEntry" [] t = "$input" -> "Input"
          [] t = "$output" -> "Output" [] t = "$busgroup" -> "BusGroup"
          [] t = "$busungroup" -> "BusUngroup" [] t = "$busslice" -> "BusSlice"
          [] t = "$zeroextend" -> "ZeroExtend" [] t = "$signextend" -> "SignExtend"
          [] t = "$xor" -> "Xor" [] t = "$xnor" -> "Xnor"
          [] t = "$reduce_and" -> "AndReduce" [] t = "$reduce_or" -> "OrReduce"
          [] t = "$reduce_xor" -> "XorReduce" [] t = "$reduce_xnor" -> "XnorReduce"
          [] t = "$reduce_bool" -> "OrReduce" [] t = "$logic_not" -> "NorReduce"
          [] t = "$shl" -> "ShiftLeft" [] t = "$shr" -> "ShiftRight"
          [] t = "$lt" -> "Lt" [] t = "$le" -> "Le" [] t = "$eq" -> "Eq"
          [] t = "$ne" -> "Ne" [] t = "$gt" -> "Gt" [] t = "$ge" -> "Ge"
          [] t = "$neg" -> "Negation" [] t = "$pos" -> "UnaryPlus"
          [] t = "$add" -> "Addition" [] t = "$sub" -> "Subtraction"
          [] t = "$mul" -> "Multiplication" [] t = "$div" -> "Division"
          [] t = "$mod" -> "Modulo" [] t = "$pow" -> "Power"
          [] t = "$mux" -> "Mux" [] t = "$pmux" -> "Mux1Hot"
          [] t \in {"$mem", "$mem_v2", "$lut"} -> "Memory"
          [] t = "$fsm" -> "FSM"
          [] t \in {"$eqx"} -> "Eq" [] t \in {"$nex"} -> "Ne"
          [] t = "$sshl" -> "ShiftLeft"
          [] t \in {"$sshr", "$shift", "$shiftx"} -> "ShiftRight"
          [] t = "$logic_and" -> "And" [] t = "$logic_or" -> "Or"
          [] OTHER -> "Dff"]

\* the register cells whose D, Q (and CLK) the converter asserts
DffCells == {"$dff", "$dffe", "$adff", "$adffe", "$sdff", "$sdffe", "$sdffce",
             "$dlatch", "$adlatch", "$dffsr", "$dffsre", "$aldff", "$aldffe"}

EnCells == {"$dffe", "$adffe", "$sdffe", "$sdffce", "$dffsre", "$aldffe", "$dlatch", "$adlatch"}

ArstCells == {"$adff", "$adffe", "$adlatch"}

SrstCells == {"$sdff", "$sdffe", "$sdffce"}

SetClrCells == {"$dffsr", "$dffsre"}

---------------------------------------------------------------------------
(* order_ports: the port maps of the primitive cells and of the modules    *)

unmap == [A |-> "in", Y |-> "out"]

binmap == [A |-> "in1", B |-> "in2", Y |-> "out"]

PrimitivePortmaps ==
    [t \in unary_gates \cup binary_gates \cup DffCells \cup {"$mux", "$sr", "$fsm"} |->
        CASE t \in unary_gates -> unmap
          [] t \in binary_gates -> binmap
          [] t = "$mux" -> [A |-> "in0", B |-> "in1", S |-> "sel", Y |-> "out"]
          [] t = "$dff" -> [CLK |-> "clk", D |-> "in", Q |-> "out"]
          [] t = "$dffe" -> [CLK |-> "clk", EN |-> "en", D |-> "in", Q |-> "out"]
          [] t = "$adff" -> [CLK |-> "clk", ARST |-> "arst", D |-> "in", Q |-> "out"]
          [] t = "$adffe" -> [CLK |-> "clk", EN |-> "en", ARST |-> "arst", D |-> "in", Q |-> "out"]
          [] t = "$sdff" -> [CLK |-> "clk", SRST |-> "srst", D |-> "in", Q |-> "out"]
          [] t \in {"$sdffe", "$sdffce"} ->
                 [CLK |-> "clk", EN |-> "en", SRST |-> "srst", D |-> "in", Q |-> "out"]
          [] t = "$dlatch" -> [EN |-> "en", D |-> "in", Q |-> "out"]
          [] t = "$adlatch" -> [EN |-> "en", ARST |-> "arst", D |-> "in", Q |-> "out"]
          [] t = "$dffsr" -> [CLK |-> "clk", SET |-> "set", CLR |-> "clr", D |-> "in", Q |-> "out"]
          [] t = "$dffsre" ->
                 [CLK |-> "clk", EN |-> "en", SET |-> "set", CLR |-> "clr", D |-> "in", Q |-> "out"]
          [] t = "$aldff" -> [CLK |-> "clk", ALOAD |-> "aload", AD |-> "ain", D |-> "in", Q |-> "out"]
          [] t = "$aldffe" ->
                 [CLK |-> "clk", EN |-> "en", ALOAD |-> "aload", AD |-> "ain", D |-> "in", Q |-> "out"]
          [] t = "$sr" -> [SET |-> "set", CLR |-> "clr", Q |-> "out"]
          [] t = "$fsm" -> [ARST |-> "arst", CLK |-> "clk", CTRL_IN |-> "in", CTRL_OUT |-> "out"]]

ModuleNames(d) == {d[i].name : i \in 1..Len(d)}

\* data.modules[name]
ModuleOf(d, name) == d[CHOOSE i \in 1..Len(d) : d[i].name = name].mod

\* portmaps[type] is defined
HasPortmap(d, type) == type \in DOMAIN PrimitivePortmaps \/ type \in ModuleNames(d)

\* order_ports(data)[type]: a module's map (set last) is the identity on its port names
order_ports(d, type) ==
    IF type \in ModuleNames(d)
    THEN LET ports == ModuleOf(d, type).ports
         IN [p \in {ports[i].name : i \in 1..Len(ports)} |-> p]
    ELSE PrimitivePortmaps[type]

\* portmap[pname]
PortmapGet(portmap, pname) == IF pname \in DOMAIN portmap THEN portmap[pname] ELSE "undefined"

---------------------------------------------------------------------------
(* Cells                                                                   *)

\* cell.port_directions[p]
Dir(cell, p) ==
    IF \E i \in 1..Len(cell.port_directions) : cell.port_directions[i].name = p
    THEN cell.port_directions[CHOOSE i \in 1..Len(cell.port_directions) :
                                  cell.port_directions[i].name = p].dir
    ELSE "undefined"

\* decode_json_number(cell.parameters[p])
ParamNum(cell, p) == decode_json_number(cell.parameters[p])

\* Boolean(decode_json_number(cell.parameters[p]))
ParamBool(cell, p) == ParamNum(cell, p) # 0

\* cell.connections[p].length == w
ConnLen(cell, p, w) == Len(cell.connections[p]) = w

\* the connections whose length the asserts for the cell's type read
AssertedConns(cell) ==
    (IF cell.type \in unary_gates THEN {"A", "Y"} ELSE {})
    \cup (IF cell.type \in binary_gates THEN {"A", "B", "Y"} ELSE {})
    \cup (IF cell.type \in DffCells THEN {"D", "Q"} ELSE {})
    \cup (IF cell.type \in DffCells \ {"$dlatch", "$adlatch"} THEN {"CLK"} ELSE {})
    \cup (IF cell.type \in EnCells THEN {"EN"} ELSE {})
    \cup (IF cell.type \in ArstCells THEN {"ARST"} ELSE {})
    \cup (IF cell.type \in SrstCells THEN {"SRST"} ELSE {})
    \cup (IF cell.type \in SetClrCells THEN {"SET", "CLR"} ELSE {})
    \cup (IF cell.type = "$mux" THEN {"A", "B", "Y"} ELSE {})
    \cup (IF cell.type = "$pmux" THEN {"A", "B", "S", "Y"} ELSE {})
    \cup (IF cell.type = "$sr" THEN {"Q"} ELSE {})
    \cup (IF cell.type = "$lut" THEN {"A", "Y"} ELSE {})
    \cup (IF cell.type \in {"$mem", "$mem_v2"}
          THEN {"RD_EN", "RD_CLK", "RD_DATA", "RD_ADDR", "WR_EN", "WR_CLK", "WR_DATA", "WR_ADDR"}
          ELSE {})
    \cup (IF cell.type = "$mem_v2" THEN {"RD_ARST", "RD_SRST"} ELSE {})

\* the conjunction of the assert(...) calls that the cell's type reaches
Asserts(cell) ==
    /\ cell.type \in unary_gates =>
          /\ ConnLen(cell, "A", ParamNum(cell, "A_WIDTH"))
          /\ ConnLen(cell, "Y", ParamNum(cell, "Y_WIDTH"))
          /\ Dir(cell, "A") = "input" /\ Dir(cell, "Y") = "output"
    /\ cell.type \in binary_gates =>
          /\ ConnLen(cell, "A", ParamNum(cell, "A_WIDTH"))
          /\ ConnLen(cell, "B", ParamNum(cell, "B_WIDTH"))
          /\ ConnLen(cell, "Y", ParamNum(cell, "Y_WIDTH"))
          /\ Dir(cell, "A") = "input" /\ Dir(cell, "B") = "input" /\ Dir(cell, "Y") = "output"
    /\ cell.type \in DffCells =>
          /\ ConnLen(cell, "D", ParamNum(cell, "WIDTH"))
          /\ ConnLen(cell, "Q", ParamNum(cell, "WIDTH"))
          /\ Dir(cell, "D") = "input" /\ Dir(cell, "Q") = "output"
          /\ cell.type \notin {"$dlatch", "$adlatch"} =>
                ConnLen(cell, "CLK", 1) /\ Dir(cell, "CLK") = "input"
    /\ cell.type \in EnCells => ConnLen(cell, "EN", 1) /\ Dir(cell, "EN") = "input"
    /\ cell.type \in ArstCells => ConnLen(cell, "ARST", 1) /\ Dir(cell, "ARST") = "input"
    /\ cell.type \in SrstCells => ConnLen(cell, "SRST", 1) /\ Dir(cell, "SRST") = "input"
    /\ cell.type \in SetClrCells =>
          /\ ConnLen(cell, "SET", ParamNum(cell, "WIDTH"))
          /\ ConnLen(cell, "CLR", ParamNum(cell, "WIDTH"))
          /\ Dir(cell, "SET") = "input" /\ Dir(cell, "CLR") = "input"
    /\ cell.type = "$mux" =>
          /\ ConnLen(cell, "A", ParamNum(cell, "WIDTH"))
          /\ ConnLen(cell, "B", ParamNum(cell, "WIDTH"))
          /\ ConnLen(cell, "Y", ParamNum(cell, "WIDTH"))
          /\ Dir(cell, "A") = "input" /\ Dir(cell, "B") = "input" /\ Dir(cell, "Y") = "output"
    /\ cell.type = "$pmux" =>
          /\ ConnLen(cell, "B", ParamNum(cell, "WIDTH") * ParamNum(cell, "S_WIDTH"))
          /\ ConnLen(cell, "A", ParamNum(cell, "WIDTH"))
          /\ ConnLen(cell, "S", ParamNum(cell, "S_WIDTH"))
          /\ ConnLen(cell, "Y", ParamNum(cell, "WIDTH"))
          /\ Dir(cell, "A") = "input" /\ Dir(cell, "B") = "input"
          /\ Dir(cell, "S") = "input" /\ Dir(cell, "Y") = "output"
    /\ cell.type = "$sr" =>
          ConnLen(cell, "Q", ParamNum(cell, "WIDTH")) /\ Dir(cell, "Q") = "output"
    /\ cell.type = "$lut" =>
          /\ ConnLen(cell, "A", ParamNum(cell, "WIDTH"))
          /\ ConnLen(cell, "Y", 1)
          /\ Dir(cell, "A") = "input" /\ Dir(cell, "Y") = "output"
          /\ Len(cell.parameters["LUT"].str) = 2 ^ Len(cell.connections["A"])
    /\ cell.type \in {"$mem", "$mem_v2"} =>
          /\ ConnLen(cell, "RD_EN", ParamNum(cell, "RD_PORTS"))
          /\ ConnLen(cell, "RD_CLK", ParamNum(cell, "RD_PORTS"))
          /\ ConnLen(cell, "RD_DATA", ParamNum(cell, "RD_PORTS") * ParamNum(cell, "WIDTH"))
          /\ ConnLen(cell, "RD_ADDR", ParamNum(cell, "RD_PORTS") * ParamNum(cell, "ABITS"))
          /\ ConnLen(cell, "WR_EN", ParamNum(cell, "WR_PORTS") * ParamNum(cell, "WIDTH"))
          /\ ConnLen(cell, "WR_CLK", ParamNum(cell, "WR_PORTS"))
          /\ ConnLen(cell, "WR_DATA", ParamNum(cell, "WR_PORTS") * ParamNum(cell, "WIDTH"))
          /\ ConnLen(cell, "WR_ADDR", ParamNum(cell, "WR_PORTS") * ParamNum(cell, "ABITS"))
    /\ cell.type = "$mem_v2" =>
          /\ ConnLen(cell, "RD_ARST", ParamNum(cell, "RD_PORTS"))
          /\ ConnLen(cell, "RD_SRST", ParamNum(cell, "RD_PORTS"))

---------------------------------------------------------------------------
(* Lowering of one cell: the body of the "Add gates" loop                  *)

\* a device attribute that is a plain number or boolean in one device type and
\* an object in another (bits, signed) is kept as [value |-> v] when it is plain
Scalar(v) == [value |-> v]

\* dev[field] = value on the device dname
SetDev(s, dname, field, value) == [s EXCEPT !.devices[dname + 1] = Put(@, field, value)]

\* cell.connections[pname] = con (also con.splice(...) on the array in place)
SetConn(s, pname, con) == [s EXCEPT !.cell.connections = Put(@, pname, con)]

\* match_port with the extension's input width read after the splice
match_port_late_length(s, pname, nsig, sz) ==
    LET con == s.cell.connections[pname]
        sig == decode_json_number(nsig)
    IN IF Len(con) > sz THEN SetConn(s, pname, SubSeq(con, 1, sz))
       ELSE IF Len(con) < sz
       THEN LET ccon == con
                pad == IF sig # 0 THEN con[Len(con)] ELSE CharBit["0"]
                con2 == con \o fill(sz - Len(con), pad)
                s1 == SetConn(s, pname, con2)
            IN IF \A i \in 1..Len(con2) : constbit(con2[i]) THEN s1
               ELSE LET s2 == get_net(s1, con2)
                    IN IF s2.nets[Lookup(s2.nets, con2)].source # NoPort THEN s2
                       ELSE LET extname == s2.n
                                s3 == add_device(s2,
                                        [type |-> IF sig # 0 THEN "SignExtend" ELSE "ZeroExtend",
                                         extend |-> [input |-> Len(con2), output |-> Len(con2)]])
                                s4 == add_net_target(s3, ccon, extname, "in")
                            IN add_net_source(s4, con2, extname, "out", FALSE)
       ELSE s

\* match_port that pads with '0' and zero-extends whatever the sign
match_port_zero_pad(s, pname, nsig, sz) ==
    LET con == s.cell.connections[pname]
    IN IF Len(con) > sz THEN SetConn(s, pname, SubSeq(con, 1, sz))
       ELSE IF Len(con) < sz
       THEN LET con2 == con \o fill(sz - Len(con), CharBit["0"])
                s1 == SetConn(s, pname, con2)
            IN IF \A i \in 1..Len(con2) : constbit(con2[i]) THEN s1
               ELSE LET s2 == get_net(s1, con2)
                    IN IF s2.nets[Lookup(s2.nets, con2)].source # NoPort THEN s2
                       ELSE LET s3 == add_device(s2, [type |-> "ZeroExtend",
                                                      extend |-> [input |-> Len(con),
                                                                  output |-> Len(con2)]])
                            IN add_net_source(add_net_target(s3, con, s2.n, "in"),
                                              con2, s2.n, "out", FALSE)
       ELSE s

match_port(s, pname, nsig, sz) ==
    LET con == s.cell.connections[pname]
        sig == decode_json_number(nsig)
    IN IF Len(con) > sz THEN SetConn(s, pname, SubSeq(con, 1, sz))
       ELSE IF Len(con) < sz
       THEN LET ccon == con
                pad == IF sig # 0 THEN con[Len(con)] ELSE CharBit["0"]
                con2 == con \o fill(sz - Len(con), pad)
                s1 == SetConn(s, pname, con2)
            IN IF \A i \in 1..Len(con2) : constbit(con2[i]) THEN s1
               ELSE LET s2 == get_net(s1, con2)
                    IN IF s2.nets[Lookup(s2.nets, con2)].source # NoPort THEN s2
                       ELSE LET extname == s2.n
                                s3 == add_device(s2,
                                        [type |-> IF sig # 0 THEN "SignExtend" ELSE "ZeroExtend",
                                         extend |-> [input |-> Len(ccon), output |-> Len(con2)]])
                                s4 == add_net_target(s3, ccon, extname, "in")
                            IN add_net_source(s4, con2, extname, "out", FALSE)
       ELSE s

zero_extend_output(s, pname) ==
    LET con == s.cell.connections[pname]
    IN IF Len(con) > 1
       THEN LET ccon == con
                con2 == SubSeq(con, 1, 1)
                s1 == SetConn(s, pname, con2)
                extname == s1.n
                s2 == add_device(s1, [type |-> "ZeroExtend",
                                      extend |-> [input |-> Len(con2), output |-> Len(ccon)]])
                s3 == add_net_source(s2, ccon, extname, "out", FALSE)
            IN add_net_target(s3, con2, extname, "in")
       ELSE s

reduce_input(s, pname) ==
    LET con == s.cell.connections[pname]
        ccon == con
        con2 == <<GenBit(s.pn)>>
        s1 == SetConn(gen_bitname(s), pname, con2)
        extname == s1.n
        s2 == add_device(s1, [type |-> "OrReduce", bits |-> Scalar(Len(ccon))])
        s3 == add_net_source(s2, con2, extname, "out", FALSE)
    IN add_net_target(s3, ccon, extname, "in")

\* the parameter that holds the polarity of a control input of a register
PolarityParam == [clock |-> "CLK_POLARITY", enable |-> "EN_POLARITY", arst |-> "ARST_POLARITY",
                  srst |-> "SRST_POLARITY", set |-> "SET_POLARITY", clr |-> "CLR_POLARITY",
                  aload |-> "ALOAD_POLARITY"]

\* the fields of dev.polarity for a register cell
PolarityFields(type) ==
    CASE type = "$dff" -> {"clock"}
      [] type = "$dffe" -> {"clock", "enable"}
      [] type = "$aldff" -> {"clock", "aload"}
      [] type = "$aldffe" -> {"clock", "enable", "aload"}
      [] type = "$adff" -> {"clock", "arst"}
      [] type = "$sdff" -> {"clock", "srst"}
      [] type = "$adffe" -> {"clock", "arst", "enable"}
      [] type \in {"$sdffe", "$sdffce"} -> {"clock", "srst", "enable"}
      [] type = "$dlatch" -> {"enable"}
      [] type = "$adlatch" -> {"enable", "arst"}
      [] type = "$dffsr" -> {"clock", "set", "clr"}
      [] type = "$dffsre" -> {"clock", "enable", "set", "clr"}
      [] type = "$sr" -> {"set", "clr"}

\* bigInt(v).toArray(2).value.map(String).reverse().concat(Array(w).fill('0'))
\*     .slice(0, w).reverse().join('') for v >= 0
ToBin(v, w) == [i \in 1..w |-> IF (v \div (2 ^ (w - i))) % 2 = 1 THEN "1" ELSE "0"]

decode_json_constant(param, w) ==
    IF "num" \in DOMAIN param THEN ToBin(param.num, w) ELSE param.str

\* the cases of switch (cell.type) that lower a register
lower_dff(s, dname) ==
    LET cell == s.cell
        w == ParamNum(cell, "WIDTH")
        s1 == SetDev(s, dname, "bits", Scalar(w))
        s2 == SetDev(s1, dname, "polarity",
                     [f \in PolarityFields(cell.type) |-> ParamBool(cell, PolarityParam[f])])
        s3 == IF cell.type \in ArstCells
              THEN SetDev(s2, dname, "arst_value", decode_json_constant(cell.parameters["ARST_VALUE"], w))
              ELSE s2
        s4 == IF cell.type \in SrstCells
              THEN SetDev(s3, dname, "srst_value", decode_json_constant(cell.parameters["SRST_VALUE"], w))
              ELSE s3
        s5 == IF cell.type = "$sdffce" THEN SetDev(s4, dname, "enable_srst", TRUE) ELSE s4
    IN IF cell.type = "$sr" THEN SetDev(s5, dname, "no_data", TRUE) ELSE s5

\* case '$lut'
lower_lut(s, dname) ==
    LET cell == s.cell
        s1 == SetDev(s, dname, "abits", Len(cell.connections["A"]))
        s2 == SetDev(s1, dname, "bits", Scalar(Len(cell.connections["Y"])))
        s3 == SetDev(SetDev(s2, dname, "rdports", << <<>> >>), dname, "wrports", <<>>)
        s4 == SetDev(s3, dname, "memdata", reverse(cell.parameters["LUT"].str))
        \* Rewrite cell connections to be $mem compatible for port mapping
        conns == Delete(Delete(Put(Put(cell.connections, "RD_ADDR", cell.connections["A"]),
                                   "RD_DATA", cell.connections["Y"]), "A"), "Y")
    IN [s4 EXCEPT !.cell.connections = conns]

\* decode_json_bigint_as_array(param).reverse()[k] is truthy
BitAt(param, k) == (decode_json_number(param) \div (2 ^ k)) % 2 = 1

RECURSIVE NumBits(_)
\* bigInt(v).toArray(2).value.map(String).reverse(): the binary digits of v, lowest first
NumBits(v) ==
    IF v < 2 THEN <<IF v = 1 THEN "1" ELSE "0">>
    ELSE <<IF v % 2 = 1 THEN "1" ELSE "0">> \o NumBits(v \div 2)

\* the words that the loop over Array(dev.words).keys() sets in memdata, each one
\* the string given to Vector3vl.fromBin
MemWords(init, w, words) ==
    LET l == IF init[Len(init)] = "x" THEN "x" ELSE "0"
    IN [k \in 1..words |->
           LET wrd == slice(init, w * (k - 1), w * k)
           IN reverse(wrd \o fill(w - Len(wrd), l))]

\* mk_init(s, f): the field of the port is set unless the slice of s is all 'x'
MkInit(port, field, str, w, k) ==
    LET v == slice(str, w * k, w * (k + 1))
    IN IF \A i \in 1..Len(v) : v[i] = "x" THEN port ELSE Put(port, field, v)

\* mk_mask(s, f): true, the array of booleans, or nothing
MkMask(port, field, param, WR, k) ==
    LET v == [i \in 1..WR |-> BitAt(param, WR * k + i - 1)]
    IN IF \A i \in 1..WR : v[i] THEN Put(port, field, [every |-> TRUE])
       ELSE IF \E i \in 1..WR : v[i] THEN Put(port, field, [mask |-> v])
       ELSE port

\* the read port k that case '$mem' / '$mem_v2' pushes to dev.rdports
MemReadPort(cell, w, k) ==
    LET P == cell.parameters
        v2 == cell.type = "$mem_v2"
        RD == ParamNum(cell, "RD_PORTS")
        WR == ParamNum(cell, "WR_PORTS")
        p1 == IF BitAt(P["RD_CLK_ENABLE"], k)
              THEN LET q == Put(<<>>, "clock_polarity", BitAt(P["RD_CLK_POLARITY"], k))
                   IN IF cell.connections["RD_EN"][k + 1] # CharBit["1"]
                      THEN Put(q, "enable_polarity", TRUE) ELSE q
              ELSE <<>>
        p2 == IF ~v2 /\ BitAt(P["RD_TRANSPARENT"], k) THEN Put(p1, "transparent", [every |-> TRUE])
              ELSE p1
        p3 == IF BitAt(P["RD_CE_OVER_SRST"], k) THEN Put(p2, "enable_srst", TRUE) ELSE p2
        p4 == MkInit(p3, "init_value", decode_json_constant(P["RD_INIT_VALUE"], w * RD), w, k)
        p5 == IF cell.connections["RD_ARST"][k + 1] # CharBit["0"]
              THEN MkInit(Put(p4, "arst_polarity", TRUE), "arst_value",
                          decode_json_constant(P["RD_ARST_VALUE"], w * RD), w, k)
              ELSE p4
        p6 == IF cell.connections["RD_SRST"][k + 1] # CharBit["0"]
              THEN MkInit(Put(p5, "srst_polarity", TRUE), "srst_value",
                          decode_json_constant(P["RD_SRST_VALUE"], w * RD), w, k)
              ELSE p5
        p7 == MkMask(p6, "transparent", P["RD_TRANSPARENCY_MASK"], WR, k)
    IN IF v2 THEN MkMask(p7, "collision", P["RD_COLLISION_X_MASK"], WR, k) ELSE p2

\* the write port k that case '$mem' / '$mem_v2' pushes to dev.wrports
MemWritePort(cell, w, k) ==
    LET P == cell.parameters
        en == slice(cell.connections["WR_EN"], w * k, w * (k + 1))
    IN IF BitAt(P["WR_CLK_ENABLE"], k)
       THEN LET q == Put(<<>>, "clock_polarity", BitAt(P["WR_CLK_POLARITY"], k))
            IN IF \E i \in 1..Len(en) : en[i] # CharBit["1"]
               THEN IF \A i \in 1..Len(en) : en[i] = en[1]
                    THEN Put(Put(q, "enable_polarity", TRUE), "no_bit_enable", TRUE)
                    ELSE Put(q, "enable_polarity", TRUE)
               ELSE q
       ELSE <<>>

\* case '$mem', case '$mem_v2' (after the asserts)
lower_mem(s, dname) ==
    LET cell == s.cell
        P == cell.parameters
        w == ParamNum(cell, "WIDTH")
        words == ParamNum(cell, "SIZE")
        s1 == SetDev(SetDev(SetDev(SetDev(s, dname, "bits", Scalar(w)),
                                   dname, "abits", ParamNum(cell, "ABITS")),
                            dname, "words", words),
                     dname, "offset", ParamNum(cell, "OFFSET"))
        s2 == SetDev(SetDev(s1, dname, "rdports", <<>>), dname, "wrports", <<>>)
    IN \* cell.parameters.INIT.split('') of an INIT that is not there
       IF "INIT" \notin DOMAIN P THEN Throw(s2, "TypeError")
       ELSE LET INIT == P["INIT"]
                \* the array init: the digits of INIT, lowest first
                init == IF "num" \in DOMAIN INIT THEN NumBits(INIT.num) ELSE reverse(INIT.str)
                \* if (cell.parameters.INIT): a number other than 0, a string other than ''
                truthy == IF "num" \in DOMAIN INIT THEN INIT.num # 0 ELSE INIT.str # <<>>
                s3 == IF truthy THEN SetDev(s2, dname, "memdata", MemWords(init, w, words))
                      ELSE s2
                s4 == SetDev(s3, dname, "rdports",
                             [k \in 1..ParamNum(cell, "RD_PORTS") |-> MemReadPort(cell, w, k - 1)])
            IN SetDev(s4, dname, "wrports",
                      [k \in 1..ParamNum(cell, "WR_PORTS") |-> MemWritePort(cell, w, k - 1)])

\* switch (cell.type): the device's attributes, the glue devices and the rewritten connections
lower_cell(s, dname) ==
    LET cell == s.cell
        type == cell.type
        A == cell.connections["A"]
        B == cell.connections["B"]
        Y == cell.connections["Y"]
    IN CASE type \in {"$neg", "$pos"} ->
              SetDev(SetDev(s, dname, "bits", [in |-> Len(A), out |-> Len(Y)]),
                     dname, "signed", Scalar(ParamBool(cell, "A_SIGNED")))
         [] type = "$not" ->
              SetDev(match_port(s, "A", cell.parameters["A_SIGNED"], Len(Y)),
                     dname, "bits", Scalar(Len(Y)))
         [] type \in {"$add", "$sub", "$mul", "$div", "$mod", "$pow"} ->
              SetDev(SetDev(s, dname, "bits", [in1 |-> Len(A), in2 |-> Len(B), out |-> Len(Y)]),
                     dname, "signed", [in1 |-> ParamBool(cell, "A_SIGNED"),
                                       in2 |-> ParamBool(cell, "B_SIGNED")])
         [] type \in {"$and", "$or", "$xor", "$xnor"} ->
              SetDev(match_port(match_port(s, "A", cell.parameters["A_SIGNED"], Len(Y)),
                                "B", cell.parameters["B_SIGNED"], Len(Y)),
                     dname, "bits", Scalar(Len(Y)))
         [] type \in {"$reduce_and", "$reduce_or", "$reduce_xor", "$reduce_xnor",
                      "$reduce_bool", "$logic_not"} ->
              LET s1 == zero_extend_output(SetDev(s, dname, "bits", Scalar(Len(A))), "Y")
              IN IF Len(A) = 1
                 THEN SetDev(s1, dname, "type",
                             IF type \in {"$reduce_xnor", "$logic_not"} THEN "Not" ELSE "Repeater")
                 ELSE s1
         [] type \in {"$eq", "$ne", "$lt", "$le", "$gt", "$ge", "$eqx", "$nex"} ->
              zero_extend_output(
                  SetDev(SetDev(s, dname, "bits", [in1 |-> Len(A), in2 |-> Len(B)]),
                         dname, "signed", [in1 |-> ParamBool(cell, "A_SIGNED"),
                                           in2 |-> ParamBool(cell, "B_SIGNED")]),
                  "Y")
         [] type \in {"$shl", "$shr", "$sshl", "$sshr", "$shift", "$shiftx"} ->
              SetDev(SetDev(SetDev(s, dname, "bits", [in1 |-> Len(A), in2 |-> Len(B), out |-> Len(Y)]),
                            dname, "signed",
                            [in1 |-> ParamBool(cell, "A_SIGNED"),
                             in2 |-> ParamBool(cell, "B_SIGNED") /\ type \in {"$shift", "$shiftx"},
                             out |-> ParamBool(cell, "A_SIGNED") /\ type \in {"$sshl", "$sshr"}]),
                     dname, "fillx", type = "$shiftx")
         [] type \in {"$logic_and", "$logic_or"} ->
              LET s1 == IF Len(A) > 1 THEN reduce_input(s, "A") ELSE s
                  s2 == IF Len(B) > 1 THEN reduce_input(s1, "B") ELSE s1
              IN zero_extend_output(s2, "Y")
         [] type = "$mux" ->
              SetDev(s, dname, "bits", [in |-> ParamNum(cell, "WIDTH"), sel |-> 1])
         [] type = "$pmux" ->
              SetDev(s, dname, "bits", [in |-> ParamNum(cell, "WIDTH"),
                                        sel |-> ParamNum(cell, "S_WIDTH")])
         [] type \in DffCells \cup {"$sr"} -> lower_dff(s, dname)
         [] type = "$lut" -> lower_lut(s, dname)
         [] type \in {"$mem", "$mem_v2"} -> lower_mem(s, dname)
         [] OTHER -> s

\* if (dev.type == 'Dff'): find register initial value, if exists
dff_initial(s, dname, modnetnames) ==
    IF s.devices[dname + 1].type # "Dff" THEN s
    ELSE LET i == Lookup(s.netnames, s.cell.connections["Q"])
             nms == IF i = 0 THEN <<>> ELSE s.netnames[i].names
             \* the positions in nms of the names whose netname has an init attribute
             inits == {j \in 1..Len(nms) :
                          \E e \in Range(modnetnames) :
                              e.name = nms[j] /\ "init" \in DOMAIN e.attributes}
         IN IF inits = {} THEN s
            ELSE LET j == CHOOSE x \in inits : \A y \in inits : y <= x
                     e == CHOOSE x \in Range(modnetnames) : x.name = nms[j]
                 IN SetDev(s, dname, "initial",
                           decode_json_constant(e.attributes["init"],
                                                s.devices[dname + 1].bits.value))

RECURSIVE connect_device_from(_, _, _, _)
\* the loop of connect_device from the i-th entry of cell.port_directions on
connect_device_from(s, dname, portmap, i) ==
    IF ~Ok(s) \/ i > Len(s.cell.port_directions) THEN s
    ELSE LET pname == s.cell.port_directions[i].name
             pdir == s.cell.port_directions[i].dir
         IN IF pdir \notin {"input", "output"} THEN Throw(s, "Invalid port direction")
            ELSE IF pname \notin DOMAIN s.cell.connections THEN Throw(s, "TypeError")
            ELSE LET pconn == s.cell.connections[pname]
                     s1 == IF pdir = "input"
                           THEN add_net_target(s, pconn, dname, PortmapGet(portmap, pname))
                           ELSE add_net_source(s, pconn, dname, PortmapGet(portmap, pname), TRUE)
                 IN connect_device_from(s1, dname, portmap, i + 1)

connect_device(s, dname, portmap) == connect_device_from(s, dname, portmap, 1)

RECURSIVE connect_pmux_from(_, _, _)
\* the loop of connect_pmux over Array(S_WIDTH).keys() from i on
connect_pmux_from(s, dname, i) ==
    LET S_WIDTH == ParamNum(s.cell, "S_WIDTH")
        WIDTH == ParamNum(s.cell, "WIDTH")
        p == (S_WIDTH - i - 1) * WIDTH
    IN IF i >= S_WIDTH THEN s
       ELSE connect_pmux_from(
                add_net_target(s, slice(s.cell.connections["B"], p, p + WIDTH), dname, InPort(i + 1)),
                dname, i + 1)

\* connect_pmux with the select vector in its original order
connect_pmux_plain_sel(s, dname) ==
    LET s1 == add_net_target(s, s.cell.connections["A"], dname, "in0")
        s2 == add_net_target(s1, s.cell.connections["S"], dname, "sel")
        s3 == add_net_source(s2, s.cell.connections["Y"], dname, "out", TRUE)
    IN connect_pmux_from(s3, dname, 0)

connect_pmux(s, dname) ==
    LET s1 == add_net_target(s, s.cell.connections["A"], dname, "in0")
        s2 == add_net_target(s1, reverse(s.cell.connections["S"]), dname, "sel")
        s3 == add_net_source(s2, s.cell.connections["Y"], dname, "out", TRUE)
    IN connect_pmux_from(s3, dname, 0)

\* "rd" + k + suffix, "wr" + k + suffix
MemPort(kind, k, suffix) == kind \o ToString(k) \o suffix

RECURSIVE connect_mem_rd(_, _, _)
connect_mem_rd(s, dname, k) ==
    LET dev == s.devices[dname + 1]
        conns == s.cell.connections
        w == dev.bits.value
    IN IF ~Ok(s) \/ k >= Len(dev.rdports) THEN s
       ELSE IF ~({"RD_ADDR", "RD_DATA"} \subseteq DOMAIN conns) THEN Throw(s, "TypeError")
       ELSE LET port == dev.rdports[k + 1]
                s1 == add_net_target(s, slice(conns["RD_ADDR"], dev.abits * k, dev.abits * (k + 1)),
                                     dname, MemPort("rd", k, "addr"))
                s2 == add_net_source(s1, slice(conns["RD_DATA"], w * k, w * (k + 1)),
                                     dname, MemPort("rd", k, "data"), TRUE)
                s3 == IF "clock_polarity" \in DOMAIN port
                      THEN add_net_target(s2, <<conns["RD_CLK"][k + 1]>>, dname, MemPort("rd", k, "clk"))
                      ELSE s2
                s4 == IF "enable_polarity" \in DOMAIN port
                      THEN add_net_target(s3, <<conns["RD_EN"][k + 1]>>, dname, MemPort("rd", k, "en"))
                      ELSE s3
                s5 == IF "arst_polarity" \in DOMAIN port
                      THEN add_net_target(s4, <<conns["RD_ARST"][k + 1]>>, dname, MemPort("rd", k, "arst"))
                      ELSE s4
                s6 == IF "srst_polarity" \in DOMAIN port
                      THEN add_net_target(s5, <<conns["RD_SRST"][k + 1]>>, dname, MemPort("rd", k, "srst"))
                      ELSE s5
            IN connect_mem_rd(s6, dname, k + 1)

RECURSIVE connect_mem_wr(_, _, _)
connect_mem_wr(s, dname, k) ==
    LET dev == s.devices[dname + 1]
        conns == s.cell.connections
        w == dev.bits.value
    IN IF ~Ok(s) \/ k >= Len(dev.wrports) THEN s
       ELSE LET port == dev.wrports[k + 1]
                s1 == add_net_target(s, slice(conns["WR_ADDR"], dev.abits * k, dev.abits * (k + 1)),
                                     dname, MemPort("wr", k, "addr"))
                s2 == add_net_target(s1, slice(conns["WR_DATA"], w * k, w * (k + 1)),
                                     dname, MemPort("wr", k, "data"))
                s3 == IF "clock_polarity" \in DOMAIN port
                      THEN add_net_target(s2, <<conns["WR_CLK"][k + 1]>>, dname, MemPort("wr", k, "clk"))
                      ELSE s2
                s4 == IF "enable_polarity" \in DOMAIN port
                      THEN IF "no_bit_enable" \in DOMAIN port /\ port["no_bit_enable"]
                           THEN add_net_target(s3, <<conns["WR_EN"][w * k + 1]>>, dname, MemPort("wr", k, "en"))
                           ELSE add_net_target(s3, slice(conns["WR_EN"], w * k, w * (k + 1)),
                                               dname, MemPort("wr", k, "en"))
                      ELSE s3
            IN connect_mem_wr(s4, dname, k + 1)

connect_mem(s, dname) == connect_mem_wr(connect_mem_rd(s, dname, 0), dname, 0)

\* "Add gates" without the final throw: a cell that nothing wires is skipped
add_gate_skip_unwired(s, d, m) ==
    LET cell == s.cell
        known == cell.type \in DOMAIN gate_subst
        dev == IF known THEN [label |-> cell.name, type |-> gate_subst[cell.type]]
               ELSE [label |-> cell.name, type |-> "Subcircuit", celltype |-> cell.type]
        dname == s.n
        s1 == add_device(s, dev)
    IN IF ~(AssertedConns(cell) \subseteq DOMAIN cell.connections) THEN Throw(s1, "TypeError")
       ELSE IF ~Asserts(cell) THEN Throw(s1, "AssertionError")
       ELSE LET s2 == lower_cell(s1, dname)
                s3 == dff_initial(s2, dname, d[m].mod.netnames)
            IN IF ~Ok(s3) THEN s3
               ELSE IF HasPortmap(d, cell.type)
                    THEN connect_device(s3, dname, order_ports(d, cell.type))
               ELSE IF cell.type = "$pmux" THEN connect_pmux(s3, dname)
               ELSE IF cell.type \in {"$mem", "$mem_v2", "$lut"} THEN connect_mem(s3, dname)
               ELSE s3

\* the body of the loop "Add gates" for the cell s.cell of module d[m]
add_gate(s, d, m) ==
    LET cell == s.cell
        known == cell.type \in DOMAIN gate_subst
        dev == IF known THEN [label |-> cell.name, type |-> gate_subst[cell.type]]
               ELSE [label |-> cell.name, type |-> "Subcircuit", celltype |-> cell.type]
        dname == s.n
        s1 == add_device(s, dev)
    IN IF ~(AssertedConns(cell) \subseteq DOMAIN cell.connections) THEN Throw(s1, "TypeError")
       ELSE IF ~Asserts(cell) THEN Throw(s1, "AssertionError")
       ELSE LET s2 == lower_cell(s1, dname)
                s3 == dff_initial(s2, dname, d[m].mod.netnames)
            IN IF ~Ok(s3) THEN s3
               ELSE IF HasPortmap(d, cell.type)
                    THEN connect_device(s3, dname, order_ports(d, cell.type))
               ELSE IF cell.type = "$pmux" THEN connect_pmux(s3, dname)
               ELSE IF cell.type \in {"$mem", "$mem_v2", "$lut"} THEN connect_mem(s3, dname)
               ELSE Throw(s3, "Invalid cell type: " \o cell.type)

---------------------------------------------------------------------------
(* The phases of yosys_to_digitaljs_mod before and after the cells         *)

RECURSIVE find_net_names(_, _, _)
\* "Find net names": the loop over Object.entries(mod.netnames) from entry i on
find_net_names(map, modnetnames, i) ==
    IF i > Len(modnetnames) THEN map
    ELSE LET e == modnetnames[i]
             j == Lookup(map, e.bits)
         IN find_net_names(
                IF e.hide_name # 0 THEN map
                ELSE IF j = 0 THEN Append(map, [key |-> e.bits, names |-> <<e.name>>])
                ELSE [map EXCEPT ![j].names = Append(@, e.name)],
                modnetnames, i + 1)

\* the body of the loop with the order of the first port for every port
add_port_order_zero(s, port) ==
    LET dname == s.n
        s1 == add_device(s, [type |-> IF port.direction = "input" THEN "Input" ELSE "Output",
                             net |-> port.name, order |-> 0, bits |-> Scalar(Len(port.bits))])
    IN IF port.direction = "input" THEN add_net_source(s1, port.bits, dname, "out", TRUE)
       ELSE add_net_target(s1, port.bits, dname, "in")

\* "Add inputs/outputs": the body of the loop for one port
add_port(s, port) ==
    LET dname == s.n
        s1 == add_device(s, [type |-> IF port.direction = "input" THEN "Input"
                                      ELSE IF port.direction = "output" THEN "Output"
                                      ELSE "undefined",
                             net |-> port.name, order |-> s.n, bits |-> Scalar(Len(port.bits))])
    IN CASE port.direction = "input" -> add_net_source(s1, port.bits, dname, "out", TRUE)
         [] port.direction = "output" -> add_net_target(s1, port.bits, dname, "in")
         [] OTHER -> Throw(s1, "Invalid port direction")

\* typeof bitinfo, for bitinfo = bits.get(bit), or 'const' for an unmapped constant
TypeofBitinfo(b, bit) ==
    IF bit \in DOMAIN b THEN "object" ELSE IF constbit(bit) THEN "string" ELSE "undefined"

\* the test of a new group that also separates two bits without provenance
StartsGroupUnknown(b, nbits, j) ==
    \/ TypeofBitinfo(b, nbits[j]) # TypeofBitinfo(b, nbits[j - 1])
    \/ TypeofBitinfo(b, nbits[j]) = "undefined"
    \/ /\ TypeofBitinfo(b, nbits[j]) = "object"
       /\ \/ b[nbits[j]].id # b[nbits[j - 1]].id
          \/ b[nbits[j]].port # b[nbits[j - 1]].port
          \/ b[nbits[j]].num # b[nbits[j - 1]].num + 1

\* the test that starts a new group at the j-th bit (j >= 2) of nbits
StartsGroup(b, nbits, j) ==
    \/ TypeofBitinfo(b, nbits[j]) # TypeofBitinfo(b, nbits[j - 1])
    \/ /\ TypeofBitinfo(b, nbits[j]) = "object"
       /\ \/ b[nbits[j]].id # b[nbits[j - 1]].id
          \/ b[nbits[j]].port # b[nbits[j - 1]].port
          \/ b[nbits[j]].num # b[nbits[j - 1]].num + 1

\* groups: the runs of nbits
Groups(b, nbits) ==
    LET starts == {1} \cup {j \in 2..Len(nbits) : StartsGroup(b, nbits, j)}
        start(k) == CHOOSE j \in starts : Cardinality({x \in starts : x < j}) = k - 1
        stop(k) == IF k = Cardinality(starts) THEN Len(nbits) ELSE start(k + 1) - 1
    IN [k \in 1..Cardinality(starts) |-> SubSeq(nbits, start(k), stop(k))]

\* the body of the loop without the inference of a zero-extension
group_net_busgroup_only(s, i) ==
    LET nbits == s.nets[i].key
        groups == Groups(s.bits, nbits)
    IN IF s.nets[i].source # NoPort \/ Len(groups) = 1 THEN s
       ELSE add_busgroup(s, nbits, groups)

\* "Group bits into nets for complex sources": the body of the loop for the i-th net
group_net(s, i) ==
    LET nbits == s.nets[i].key
        groups == Groups(s.bits, nbits)
        lastg == groups[Len(groups)]
    IN IF s.nets[i].source # NoPort \/ Len(groups) = 1 THEN s
       ELSE IF \A x \in Range(lastg) : x = CharBit["0"]
       THEN \* infer zero-extend
            LET ilen == Len(nbits) - Len(lastg)
                dname == s.n
                s1 == add_device(s, [type |-> "ZeroExtend",
                                     extend |-> [output |-> Len(nbits), input |-> ilen]])
                zbits == slice(nbits, 0, ilen)
                s2 == add_net_source(s1, nbits, dname, "out", FALSE)
                s3 == add_net_target(s2, zbits, dname, "in")
            IN IF Len(groups) > 2
               THEN add_busgroup(s3, zbits, SubSeq(groups, 1, Len(groups) - 1))
               ELSE s3
       ELSE add_busgroup(s, nbits, groups)

\* "Add constants": the body of the loop for the i-th net
constant_net(s, i) ==
    LET nbits == s.nets[i].key
    IN IF s.nets[i].source # NoPort \/ ~(\A x \in Range(nbits) : constbit(x)) THEN s
       ELSE add_net_source(
                add_device(s, [type |-> "Constant",
                               constant |-> [j \in 1..Len(nbits) |-> BitChar(reverse(nbits)[j])]]),
                nbits, s.n, "out", FALSE)

\* the body of the loop with a slice that starts at the first bit of the port
slice_net_first_zero(s, i) ==
    LET nbits == s.nets[i].key
        bitinfos == [j \in 1..Len(nbits) |-> s.bits[nbits[j]]]
    IN IF s.nets[i].source # NoPort THEN s
       ELSE IF ~(\A x \in Range(nbits) : GreaterThanOne(x)) THEN Throw(s, "AssertionError")
       ELSE IF ~(\A x \in Range(nbits) : x \in DOMAIN s.bits) THEN s
       ELSE LET cconn == s.devnets[bitinfos[1].id + 1][bitinfos[1].port]
                s1 == add_device(s, [type |-> "BusSlice",
                                     slice |-> [first |-> 0,
                                                count |-> Len(bitinfos),
                                                total |-> Len(cconn)]])
            IN add_net_target(add_net_source(s1, nbits, s.n, "out", FALSE), cconn, s.n, "in")

\* "Select bits from complex targets": the body of the loop for the i-th net
slice_net(s, i) ==
    LET nbits == s.nets[i].key
        bitinfos == [j \in 1..Len(nbits) |-> s.bits[nbits[j]]]
    IN IF s.nets[i].source # NoPort THEN s
       ELSE IF ~(\A x \in Range(nbits) : GreaterThanOne(x)) THEN Throw(s, "AssertionError")
       ELSE IF ~(\A x \in Range(nbits) : x \in DOMAIN s.bits) THEN s
       ELSE IF ~(\A j \in 1..Len(nbits) : bitinfos[j].id = bitinfos[1].id
                                          /\ bitinfos[j].port = bitinfos[1].port)
       THEN Throw(s, "AssertionError")
       ELSE LET cconn == s.devnets[bitinfos[1].id + 1][bitinfos[1].port]
                dname == s.n
                s1 == add_device(s, [type |-> "BusSlice",
                                     slice |-> [first |-> bitinfos[1].num,
                                                count |-> Len(bitinfos),
                                                total |-> Len(cconn)]])
                s2 == add_net_source(s1, nbits, dname, "out", FALSE)
            IN add_net_target(s2, cconn, dname, "in")

RECURSIVE connect_targets_shared(_, _, _)
\* the loop over net.targets without the replication of constants
connect_targets_shared(s, i, t) ==
    LET net == s.nets[i]
        named == IF net.name # NoName THEN [to |-> net.targets[t], from |-> net.source, name |-> net.name]
                 ELSE [to |-> net.targets[t], from |-> net.source]
    IN IF t > Len(net.targets) THEN s
       ELSE connect_targets_shared([s EXCEPT !.connectors = Append(@, named)], i, t + 1)

RECURSIVE connect_targets(_, _, _)
\* the loop over net.targets of the i-th net from target t on
connect_targets(s, i, t) ==
    LET net == s.nets[i]
        named == IF net.name # NoName THEN [to |-> net.targets[t], from |-> net.source, name |-> net.name]
                 ELSE [to |-> net.targets[t], from |-> net.source]
    IN IF t > Len(net.targets) THEN s
       ELSE IF t > 1 /\ s.devices[net.source.id + 1].type = "Constant"
       THEN \* replicate constants for better clarity
            LET s1 == add_device(s, [type |-> "Constant",
                                     constant |-> s.devices[net.source.id + 1].constant])
            IN connect_targets(
                   [s1 EXCEPT !.connectors = Append(@, [named EXCEPT !.from = Port(s.n, "out")])],
                   i, t + 1)
       ELSE connect_targets([s EXCEPT !.connectors = Append(@, named)], i, t + 1)

\* the body of the loop for the i-th net without the test of net.source
connect_net_undriven(s, i) ==
    IF s.nets[i].source = NoPort
    THEN connect_targets_shared([s EXCEPT !.warnings = Append(@, s.nets[i].key)], i, 1)
    ELSE connect_targets_shared(s, i, 1)

\* "Generate connections between devices": the body of the loop for the i-th net
connect_net(s, i) ==
    IF s.nets[i].source = NoPort THEN [s EXCEPT !.warnings = Append(@, s.nets[i].key)]
    ELSE connect_targets(s, i, 1)

\* for (const [nbits, net] of nets.entries()) ...: entries() is the array of the
\* entries the map holds when the loop starts, so a loop visits the nets from the
\* i-th to the last one of that array and none of the nets its body adds
RECURSIVE group_bits_from(_, _, _)
group_bits_from(s, i, last) ==
    IF i > last \/ ~Ok(s) THEN s ELSE group_bits_from(group_net(s, i), i + 1, last)

group_bits(s) == group_bits_from(s, 1, Len(s.nets))

RECURSIVE add_constants_from(_, _, _)
add_constants_from(s, i, last) ==
    IF i > last \/ ~Ok(s) THEN s ELSE add_constants_from(constant_net(s, i), i + 1, last)

add_constants(s) == add_constants_from(s, 1, Len(s.nets))

RECURSIVE select_bits_from(_, _, _)
select_bits_from(s, i, last) ==
    IF i > last \/ ~Ok(s) THEN s ELSE select_bits_from(slice_net(s, i), i + 1, last)

select_bits(s) == select_bits_from(s, 1, Len(s.nets))

RECURSIVE generate_connections_from(_, _, _)
generate_connections_from(s, i, last) ==
    IF i > last \/ ~Ok(s) THEN s ELSE generate_connections_from(connect_net(s, i), i + 1, last)

generate_connections(s) == generate_connections_from(s, 1, Len(s.nets))

\* the variables of a yosys_to_digitaljs_mod call when it starts
NewCall ==
    [nets |-> <<>>, netnames |-> <<>>, bits |-> <<>>, devnets |-> <<>>, n |-> 0, pn |-> 0,
     devices |-> <<>>, connectors |-> <<>>, warnings |-> <<>>, err |-> "none", cell |-> <<>>]

RECURSIVE add_ports_from(_, _, _)
\* the loop "Add inputs/outputs" from the i-th port on
add_ports_from(s, ports, i) ==
    IF i > Len(ports) \/ ~Ok(s) THEN s ELSE add_ports_from(add_port(s, ports[i]), ports, i + 1)

RECURSIVE add_gates_from(_, _, _, _)
\* the loop "Add gates" from the i-th cell on; a cell's connections change in d
add_gates_from(s, d, m, i) ==
    IF i > Len(d[m].mod.cells) \/ ~Ok(s) THEN s
    ELSE LET s1 == add_gate([s EXCEPT !.cell = d[m].mod.cells[i]], d, m)
         IN add_gates_from(s1, [d EXCEPT ![m].mod.cells[i] = s1.cell], m, i + 1)

\* one call of yosys_to_digitaljs_mod, from its first statement to its last, on
\* the module d[m]: the variables of the call when it returns or throws
yosys_to_digitaljs_mod(d, m) ==
    LET s0 == [NewCall EXCEPT !.netnames = find_net_names(<<>>, d[m].mod.netnames, 1)]
        s1 == add_ports_from(s0, d[m].mod.ports, 1)
        s2 == add_gates_from(s1, d, m, 1)
        s3 == IF Ok(s2) THEN group_bits(s2) ELSE s2
        s4 == IF Ok(s3) THEN add_constants(s3) ELSE s3
        s5 == IF Ok(s4) THEN select_bits(s4) ELSE s4
    IN IF Ok(s5) THEN generate_connections(s5) ELSE s5

---------------------------------------------------------------------------
(* module_deps, topsort and the assembly of the output                     *)

RECURSIVE cell_deps_reversed(_, _, _, _)
\* the edges of a module's cells pushed as [name, cell.type]
cell_deps_reversed(d, name, cells, i) ==
    IF i > Len(cells) THEN <<>>
    ELSE (IF cells[i].type \in ModuleNames(d) THEN << <<name, cells[i].type>> >> ELSE <<>>)
         \o cell_deps_reversed(d, name, cells, i + 1)

\* the cells of a module that instantiate a module of d, as edges [cell.type, name]
RECURSIVE cell_deps(_, _, _, _)
cell_deps(d, name, cells, i) ==
    IF i > Len(cells) THEN <<>>
    ELSE (IF cells[i].type \in ModuleNames(d) THEN << <<cells[i].type, name>> >> ELSE <<>>)
         \o cell_deps(d, name, cells, i + 1)

RECURSIVE module_deps_from(_, _)
module_deps_from(d, i) ==
    IF i > Len(d) THEN <<>>
    ELSE << <<d[i].name, "Infinity">> >> \o cell_deps(d, d[i].name, d[i].mod.cells, 1)
         \o module_deps_from(d, i + 1)

\* the edges [from, to]; 1/0 is "Infinity"
module_deps(d) == module_deps_from(d, 1)

\* topsort (the npm package): an edge whose two ends are equal is skipped
\* ("if (toEdge == fromEdge) return"), the others order from before to
TopsortBefore(edges) == {e \in Range(edges) : e[1] # e[2]}

TopsortNodes(edges) == {e[1] : e \in Range(edges)} \cup {e[2] : e \in Range(edges)}

RECURSIVE TopsortReach(_, _, _)
\* the nodes reached from those of from by 1 to k edges of rel
TopsortReach(rel, from, k) ==
    LET nxt == {e[2] : e \in {x \in rel : x[1] \in from}}
    IN IF k = 0 THEN {} ELSE nxt \cup TopsortReach(rel, nxt, k - 1)

\* topsort throws 'Circular chain found' exactly when a node reaches itself
TopsortThrows(edges) ==
    \E x \in TopsortNodes(edges) :
        x \in TopsortReach(TopsortBefore(edges), {x}, Cardinality(TopsortNodes(edges)))

\* what topsort(edges) can return: the depth-first order depends on the order the
\* engine's sort leaves a node's successors in (sortDesc cannot order a name and
\* Infinity), so every order of the nodes that respects the edges is allowed
TopsortResults(edges) ==
    LET nodes == TopsortNodes(edges)
        k == Cardinality(nodes)
    IN {o \in [1..k -> nodes] :
           /\ \A i, j \in 1..k : i # j => o[i] # o[j]
           /\ \A e \in TopsortBefore(edges) :
                 \E i, j \in 1..k : i < j /\ o[i] = e[1] /\ o[j] = e[2]}

\* out[name]
GraphOf(o, name) ==
    IF \E i \in 1..Len(o) : o[i].name = name
    THEN o[CHOOSE i \in 1..Len(o) : o[i].name = name].graph
    ELSE [devices |-> <<>>, connectors |-> <<>>]

\* the assembly with the sink popped and the last entry read, not popped
assemble_one_pop(o, order) ==
    LET toplevel == order[Len(order) - 1]
        rest == SubSeq(order, 1, Len(order) - 1)
    IN [devices |-> GraphOf(o, toplevel).devices,
        connectors |-> GraphOf(o, toplevel).connectors,
        subcircuits |-> [i \in 1..Len(rest) |-> [name |-> rest[i], graph |-> GraphOf(o, rest[i])]]]

\* toporder.pop(); toplevel = toporder.pop(); output = {subcircuits: {}, ...out[toplevel]};
\* for (const x of toporder) output.subcircuits[x] = out[x]
assemble(o, order) ==
    LET toplevel == order[Len(order) - 1]
        rest == SubSeq(order, 1, Len(order) - 2)
    IN [devices |-> GraphOf(o, toplevel).devices,
        connectors |-> GraphOf(o, toplevel).connectors,
        subcircuits |-> [i \in 1..Len(rest) |-> [name |-> rest[i], graph |-> GraphOf(o, rest[i])]]]

---------------------------------------------------------------------------
(* The inputs: Yosys netlists                                              *)

\* the most cells of the module of a one-module netlist
MaxCells == 2

\* the most cells of a module of a hierarchy that instantiate modules
MaxInst == 2

\* how many times yosys2digitaljs is called on the same object
MaxRuns == 2

B0 == CharBit["0"]

B1 == CharBit["1"]

\* a parameter the way Yosys writes it, as a binary string
Bin(v) == JStr(ToBin(v, 4))

In(p) == [name |-> p, dir |-> "input"]

Out(p) == [name |-> p, dir |-> "output"]

UnaryCell(type, A, Y, signed) ==
    [type |-> type,
     parameters |-> [A_SIGNED |-> JNum(signed), A_WIDTH |-> Bin(Len(A)), Y_WIDTH |-> Bin(Len(Y))],
     port_directions |-> <<In("A"), Out("Y")>>,
     connections |-> [A |-> A, Y |-> Y]]

BinaryCell(type, A, B, Y, signed) ==
    [type |-> type,
     parameters |-> [A_SIGNED |-> JNum(signed), B_SIGNED |-> Bin(signed),
                     A_WIDTH |-> Bin(Len(A)), B_WIDTH |-> JNum(Len(B)), Y_WIDTH |-> Bin(Len(Y))],
     port_directions |-> <<In("A"), In("B"), Out("Y")>>,
     connections |-> [A |-> A, B |-> B, Y |-> Y]]

MuxCell(A, B, S, Y) ==
    [type |-> "$mux", parameters |-> [WIDTH |-> Bin(Len(Y))],
     port_directions |-> <<In("A"), In("B"), In("S"), Out("Y")>>,
     connections |-> [A |-> A, B |-> B, S |-> S, Y |-> Y]]

PmuxCell(A, B, S, Y) ==
    [type |-> "$pmux", parameters |-> [WIDTH |-> Bin(Len(Y)), S_WIDTH |-> JNum(Len(S))],
     port_directions |-> <<In("A"), In("B"), In("S"), Out("Y")>>,
     connections |-> [A |-> A, B |-> B, S |-> S, Y |-> Y]]

DffCell(CLK, D, Q) ==
    [type |-> "$dff", parameters |-> [WIDTH |-> Bin(Len(Q)), CLK_POLARITY |-> JNum(1)],
     port_directions |-> <<In("CLK"), In("D"), Out("Q")>>,
     connections |-> [CLK |-> CLK, D |-> D, Q |-> Q]]

LutCell(A, Y, lut) ==
    [type |-> "$lut", parameters |-> [WIDTH |-> Bin(Len(A)), LUT |-> JStr(lut)],
     port_directions |-> <<In("A"), Out("Y")>>,
     connections |-> [A |-> A, Y |-> Y]]

\* a cell of a type that is neither a primitive nor a module of the netlist
UnknownCell(A, Y) ==
    [type |-> "$bogus", parameters |-> <<>>,
     port_directions |-> <<In("A"), Out("Y")>>,
     connections |-> [A |-> A, Y |-> Y]]

\* the cells a module can have at position k: the cell drives the bits y and y + 1,
\* and reads the inputs a = <<2, 3>> and b = <<4>>, constants, and the vector P
\* (the output of the cell before it, a for the first cell)
CellsAt(k) ==
    LET y == 3 + 2 * k
        Y1 == <<y>>
        Y2 == <<y, y + 1>>
        a == <<2, 3>>
        b == <<4>>
        P == IF k = 1 THEN a ELSE <<y - 2, y - 1>>
        all == <<
            UnaryCell("$not", b, Y2, 0),                  \* zero-extended input
            UnaryCell("$not", b, Y2, 1),                  \* sign-extended input
            UnaryCell("$not", <<B1>>, Y2, 0),             \* constant input, padded
            UnaryCell("$not", <<y - 2, y - 1, 4>>, Y2, 0),\* input wider than the output
            BinaryCell("$and", a, b, Y2, 0),
            BinaryCell("$and", <<B1, B0>>, <<B1, B0>>, Y2, 0), \* one constant net, two targets
            BinaryCell("$and", <<3>>, b, Y1, 0),          \* a slice of a
            BinaryCell("$or", <<4, 2>>, P, Y2, 0),        \* a group of b and a[0]
            BinaryCell("$add", P, b, Y2, 1),
            BinaryCell("$eq", P, a, Y2, 0),               \* zero-extended output
            BinaryCell("$lt", a, <<B1, B0>>, Y1, 0),
            UnaryCell("$reduce_or", P, Y1, 0),
            UnaryCell("$logic_not", b, Y2, 0),
            BinaryCell("$logic_and", a, P, Y1, 0),        \* both inputs reduced
            MuxCell(a, P, b, Y2),
            PmuxCell(b, a, P, Y1),
            DffCell(b, P, Y2),
            LutCell(a, Y1, <<"0", "1", "1", "0">>),
            UnknownCell(b, Y1),
            [UnknownCell(b, Y1) EXCEPT !.type = "$nand"], \* a device type, but no wiring
            UnaryCell("$not", a, a, 0),                   \* drives the net of input a again
            UnaryCell("$not", b, <<3, y>>, 0),            \* drives bit 3 of input a again
            UnaryCell("$not", <<30, 31>>, Y2, 0),         \* reads a net nothing drives
            UnaryCell("$not", b, <<50, y, y + 1>>, 0),    \* y and y + 1 are a slice of Y
            [BinaryCell("$add", a, b, Y2, 0) EXCEPT !.parameters.A_WIDTH = Bin(1)] >>
        later == <<
            UnaryCell("$not", P, Y2, 0),
            UnaryCell("$not", b, P, 0),                   \* drives the net of the cell before
            BinaryCell("$and", <<B1, B0>>, <<y - 2>>, Y2, 0),
            BinaryCell("$eq", P, a, Y2, 0),
            BinaryCell("$logic_or", P, b, Y1, 0),
            DffCell(b, <<B1, B0>>, Y2) >>
    IN IF k = 1 THEN Range(all) ELSE Range(later)

\* the vectors the output port y of the module can have
OutputVectors ==
    { <<5>>, <<5, 6>>, <<2, 3>>, <<2>>, <<3, 4>>, <<5, B0>>, <<4, 5, B0>>, <<B1, B0>>, <<40>> }

RECURSIVE CellSeqs(_)
\* the sequences of k cells, the i-th one of CellsAt(i), named c1, c2, ...
CellSeqs(k) ==
    IF k = 0 THEN { <<>> }
    ELSE {Append(cs, [name |-> "c" \o ToString(k)] @@ c) : cs \in CellSeqs(k - 1), c \in CellsAt(k)}

\* a module with the inputs a and b, the output y and the cells cs
Module(cs, yv) ==
    [ports |-> << [name |-> "a", direction |-> "input", bits |-> <<2, 3>>],
                  [name |-> "b", direction |-> "input", bits |-> <<4>>],
                  [name |-> "y", direction |-> "output", bits |-> yv] >>,
     cells |-> cs,
     netnames |-> << [name |-> "$h", hide_name |-> 1, bits |-> <<2, 3>>, attributes |-> <<>>],
                     [name |-> "a", hide_name |-> 0, bits |-> <<2, 3>>, attributes |-> <<>>],
                     [name |-> "a2", hide_name |-> 0, bits |-> <<2, 3>>, attributes |-> <<>>],
                     [name |-> "b", hide_name |-> 0, bits |-> <<4>>, attributes |-> <<>>],
                     [name |-> "y", hide_name |-> 0, bits |-> yv, attributes |-> <<>>] >>]

\* the netlists of one module
FlatDesigns ==
    { << [name |-> "top", mod |-> Module(cs, yv)] >> :
          cs \in UNION {CellSeqs(k) : k \in 0..MaxCells}, yv \in OutputVectors }

\* a cell that instantiates module type: its ports are those of SubModule
InstCell(k, type) ==
    [name |-> "u" \o ToString(k), type |-> type, parameters |-> <<>>,
     port_directions |-> <<In("i"), Out("o")>>,
     connections |-> [i |-> <<2>>, o |-> <<3 + k>>]]

\* a module of a hierarchy: input i, output o wired to i, and the cells that
\* instantiate the modules of types (a sequence of module names)
SubModule(types) ==
    [ports |-> << [name |-> "i", direction |-> "input", bits |-> <<2>>],
                  [name |-> "o", direction |-> "output", bits |-> <<2>>] >>,
     cells |-> [k \in 1..Len(types) |-> InstCell(k, types[k])],
     netnames |-> << [name |-> "i", hide_name |-> 0, bits |-> <<2>>, attributes |-> <<>>] >>]

\* the names of the modules of a hierarchy, in the order of the JSON object
HierarchyNames == { <<"top", "sub">>, <<"leaf", "sub", "top">>, <<"top", "leaf", "sub">> }

\* the modules a module instantiates: at most MaxInst of the modules S
InstSeqs(S) ==
    {SelectSeq(<<"leaf", "sub", "top">>, LAMBDA x : x \in T) :
        T \in {U \in SUBSET S : Cardinality(U) <= MaxInst}}

\* the netlists of several modules: every module instantiates any modules of the
\* netlist (itself included)
HierDesigns ==
    UNION { { [i \in 1..Len(names) |-> [name |-> names[i], mod |-> SubModule(inst[i])]] :
                inst \in [1..Len(names) -> InstSeqs(Range(names))] } :
            names \in HierarchyNames }

Designs == FlatDesigns \cup HierDesigns

\* a register cell on the clock <<2>>, the reset <<3>>, the data <<4, 5>> and the
\* output <<6, 7>>; rst is "ARST" or "SRST" (or "" for none), value its reset value
RegCell(type, rst, value) ==
    [name |-> "r1", type |-> type,
     parameters |->
         [p \in {"WIDTH", "CLK_POLARITY"}
                \cup (IF rst = "" THEN {} ELSE {rst \o "_POLARITY", rst \o "_VALUE"}) |->
             IF p = "WIDTH" THEN Bin(2)
             ELSE IF p = rst \o "_VALUE" THEN value ELSE JNum(1)],
     port_directions |-> <<In("CLK"), In("D"), Out("Q")>>
                         \o (IF rst = "" THEN <<>> ELSE <<In(rst)>>),
     connections |-> [p \in {"CLK", "D", "Q"} \cup (IF rst = "" THEN {} ELSE {rst}) |->
                         IF p = "CLK" THEN <<2>> ELSE IF p = "D" THEN <<4, 5>>
                         ELSE IF p = "Q" THEN <<6, 7>> ELSE <<3>>]]

\* the values of a two-bit constant: integers (one of them wider than two bits)
\* and binary strings (of two and of three characters)
ConstValues == {JNum(1), JNum(5), JStr(<<"1", "0">>), JStr(<<"0", "1", "1">>)}

RegCells ==
    {RegCell("$dff", "", JNum(0))}
    \cup {RegCell("$adff", "ARST", v) : v \in ConstValues}
    \cup {RegCell("$sdff", "SRST", v) : v \in ConstValues}

\* the netnames of the register's output: a hidden one, q, and q2 or none, each
\* with attributes that have init or have not
QNames ==
    LET NoAttr == <<>>
        InitAttr(v) == [init |-> v]
    IN { << [name |-> "$q", hide_name |-> 1, bits |-> <<6, 7>>, attributes |-> ah],
            [name |-> "q", hide_name |-> 0, bits |-> <<6, 7>>, attributes |-> aq] >> \o more :
           ah \in {NoAttr, InitAttr(JStr(<<"1", "1">>))},
           aq \in {NoAttr} \cup {InitAttr(v) : v \in ConstValues},
           more \in { <<>> } \cup
                    { << [name |-> "q2", hide_name |-> 0, bits |-> <<6, 7>>, attributes |-> a2] >> :
                         a2 \in {NoAttr, InitAttr(JNum(2))} } }

\* a module of one cell, with the inputs clk, rst, d and the output q
CellModule(cell, nn) ==
    [ports |-> << [name |-> "clk", direction |-> "input", bits |-> <<2>>],
                  [name |-> "rst", direction |-> "input", bits |-> <<3>>],
                  [name |-> "d", direction |-> "input", bits |-> <<4, 5>>],
                  [name |-> "q", direction |-> "output", bits |-> <<6, 7>>] >>,
     cells |-> <<cell>>,
     netnames |-> << [name |-> "d", hide_name |-> 0, bits |-> <<4, 5>>, attributes |-> <<>>] >>
                  \o nn]

\* the netlists of one module with one register
RegDesigns == { << [name |-> "top", mod |-> CellModule(c, nn)] >> : c \in RegCells, nn \in QNames }

\* a memory cell of two words of two bits with one read port (address <<3>>, data
\* <<6, 7>>) and WR write ports (address <<3>>, data <<4, 5>>, enable en); params
\* are the parameters INIT, RD_CLK_ENABLE and WR_CLK_ENABLE (INIT may be missing)
MemCell(type, WR, en, params) ==
    [name |-> "m1", type |-> type,
     parameters |->
         params @@
         [WIDTH |-> Bin(2), ABITS |-> Bin(1), SIZE |-> Bin(2), OFFSET |-> Bin(0),
          RD_PORTS |-> Bin(1), WR_PORTS |-> Bin(WR),
          RD_CLK_POLARITY |-> Bin(1), RD_TRANSPARENT |-> Bin(0), WR_CLK_POLARITY |-> Bin(1)] @@
         (IF type = "$mem_v2"
          THEN [RD_TRANSPARENCY_MASK |-> Bin(0), RD_COLLISION_X_MASK |-> Bin(0),
                RD_CE_OVER_SRST |-> Bin(0), RD_INIT_VALUE |-> JStr(<<"x", "x">>),
                RD_ARST_VALUE |-> JStr(<<"0", "1">>), RD_SRST_VALUE |-> JStr(<<"x", "x">>)]
          ELSE <<>>),
     port_directions |->
         <<In("RD_ADDR"), In("RD_CLK"), Out("RD_DATA"), In("RD_EN"),
           In("WR_ADDR"), In("WR_CLK"), In("WR_DATA"), In("WR_EN")>>
         \o (IF type = "$mem_v2" THEN <<In("RD_ARST"), In("RD_SRST")>> ELSE <<>>),
     connections |->
         [RD_ADDR |-> <<3>>, RD_CLK |-> <<2>>, RD_DATA |-> <<6, 7>>, RD_EN |-> <<B1>>,
          WR_ADDR |-> fill(WR, 3), WR_CLK |-> fill(WR, 2),
          WR_DATA |-> IF WR = 1 THEN <<4, 5>> ELSE <<>>,
          WR_EN |-> IF WR = 1 THEN en ELSE <<>>] @@
         (IF type = "$mem_v2" THEN [RD_ARST |-> <<3>>, RD_SRST |-> <<B0>>] ELSE <<>>)]

\* the memory cells; the values of INIT are those of a memory of two words of two
\* bits (one of them is too short), or INIT is missing
MemCells ==
    LET MemInits == {JStr(<<"0", "1", "1", "0">>), JStr(<<"x", "1">>), JNum(6), JNum(0),
                     JStr(<<>>), JStr(<<"1", "0", "1", "1", "0">>), JStr(<<"1">>)}
    IN {MemCell(type, WR, en, [RD_CLK_ENABLE |-> Bin(e), WR_CLK_ENABLE |-> Bin(e)] @@ ini) :
           type \in {"$mem", "$mem_v2"}, WR \in {0, 1}, en \in { <<B1, B1>>, <<3, 3>> },
           e \in {0, 1}, ini \in { <<>> } \cup {[INIT |-> v] : v \in MemInits} }

\* the netlists of one module with one memory
MemDesigns ==
    { << [name |-> "top", mod |-> CellModule(c, <<>>)] >> : c \in MemCells }

\* the netlists of one module with one cell
\* $mux cells on the inputs d = <<4, 5>> and <<2, 3>> and the output <<6, 7>>: the
\* select S is the input rst or a bit of its own, of either direction; A can lack
\* a bit and Y can be declared an input
MuxCells ==
    { [name |-> "m1"] @@
      [MuxCell(A, <<2, 3>>, S, <<6, 7>>) EXCEPT
           !.port_directions = <<In("A"), In("B"), [name |-> "S", dir |-> sd],
                                 [name |-> "Y", dir |-> yd]>>] :
          A \in {<<4, 5>>, <<4>>}, S \in {<<3>>, <<30>>},
          sd \in {"input", "output"}, yd \in {"output", "input"} }

\* $pmux cells of WIDTH W and S_WIDTH S on bits of the inputs, with output on q
PmuxCells ==
    { [name |-> "p1"] @@
      PmuxCell(SubSeq(<<4, 5>>, 1, W), SubSeq(<<2, 3, 4, 5, 3, 2>>, 1, W * S),
               SubSeq(<<3, 2, 5>>, 1, S), SubSeq(<<6, 7>>, 1, W)) :
          W \in 1..2, S \in 1..3 }

MuxDesigns ==
    { << [name |-> "top", mod |-> CellModule(c, <<>>)] >> : c \in MuxCells \cup PmuxCells }

\* bitwise cells with the output <<6, 7>> whose inputs are narrower than, as wide
\* as or wider than the output, constant or not, signed or not; B can be A
BitwiseCells ==
    { [name |-> "g1"] @@ UnaryCell("$not", A, <<6, 7>>, sa) :
          A \in {<<4>>, <<4, 5>>, <<B1>>, <<4, 5, 3>>}, sa \in 0..1 }
    \cup { [name |-> "g1"] @@
            [BinaryCell(t, A, B, <<6, 7>>, sa) EXCEPT !.parameters.B_SIGNED = JNum(sb)] :
                t \in {"$and", "$xnor"}, A \in {<<4>>, <<4, 5>>, <<B1>>, <<4, 5, 3>>},
                B \in {<<4>>, <<5>>, <<2, 3>>}, sa \in 0..1, sb \in 0..1 }

\* the modules of one bitwise cell; in the last ones the cell drives the vector
\* <<6, k, 7>> (k a constant) and the output q reads two bits of that vector
BitwiseDesigns ==
    LET ConstDriven(k, qv) ==
            [CellModule([name |-> "g1"] @@ UnaryCell("$not", <<4, 5, 3>>, <<6, k, 7>>, 0), <<>>)
                 EXCEPT !.ports[4].bits = qv]
    IN { << [name |-> "top", mod |-> CellModule(c, <<>>)] >> : c \in BitwiseCells }
       \cup { << [name |-> "top", mod |-> ConstDriven(k, << <<k, 7>>, <<6, 7>>, <<6, k>> >>[q])] >> :
                 k \in {B0, CharBit["x"]}, q \in 1..3 }

\* comparison, reduction and logic cells with the two-bit output <<6, 7>>
CompareCells ==
    { [name |-> "e1"] @@ BinaryCell(t, <<4, 5>>, <<2, 3>>, <<6, 7>>, 0) :
          t \in {"$eq", "$lt", "$logic_and"} }
    \cup { [name |-> "e1"] @@ UnaryCell(t, <<4, 5>>, <<6, 7>>, 0) :
              t \in {"$reduce_or", "$logic_not"} }

\* the modules of one such cell; the output q reads both bits of the cell's
\* output, one of them, or both in the other order
CompareDesigns ==
    { << [name |-> "top", mod |-> [CellModule(c, <<>>) EXCEPT !.ports[4].bits = qv]] >> :
          c \in CompareCells, qv \in { <<6, 7>>, <<6>>, <<7>>, <<7, 6>> } }

\* modules of one or two cells whose outputs are empty vectors; the input rst can
\* be an empty vector too
EmptyDesigns ==
    LET Cells == { UnaryCell("$not", <<4>>, <<>>, 0),
                   BinaryCell("$and", <<4, 5>>, <<>>, <<>>, 0),
                   BinaryCell("$eq", <<4, 5>>, <<2, 3>>, <<>>, 0),
                   MuxCell(<<>>, <<>>, <<3>>, <<>>),
                   DffCell(<<2>>, <<>>, <<>>) }
        Seqs == { << [name |-> "c1"] @@ c >> : c \in Cells }
                \cup { << [name |-> "c1"] @@ c, [name |-> "c2"] @@ e >> : c \in Cells, e \in Cells }
    IN { << [name |-> "top",
             mod |-> [CellModule(cs[1], <<>>) EXCEPT !.cells = cs, !.ports[2].bits = rv]] >> :
           cs \in Seqs, rv \in { <<3>>, <<>> } }

CellDesigns ==
    RegDesigns \cup MemDesigns \cup MuxDesigns \cup BitwiseDesigns \cup CompareDesigns
    \cup EmptyDesigns

\* the cells of a module of a netlist of two modules; other is the other module,
\* which has the ports of Module and which the last but one cell instantiates
PairCells(other) ==
    LET ModuleCell(type, Y) ==
            [type |-> type, parameters |-> <<>>,
             port_directions |-> <<In("a"), In("b"), Out("y")>>,
             connections |-> [a |-> <<2, 3>>, b |-> <<4>>, y |-> Y]]
    IN
    { << [name |-> "c1"] @@ c >> :
        c \in {UnaryCell("$not", <<4>>, <<5, 6>>, 0),            \* padded in place
               BinaryCell("$and", <<3>>, <<4>>, <<5>>, 0),      \* a slice of a
               BinaryCell("$or", <<4, 2>>, <<2, 3>>, <<5, 6>>, 0), \* a group
               ModuleCell(other, <<5, 6>>),
               UnknownCell(<<4>>, <<5>>)} }

\* the netlists of two modules m1 and m2; the netnames of m2 have other names
PairDesigns ==
    LET Renamed(m, suffix) ==
            [m EXCEPT !.netnames = [i \in 1..Len(@) |-> [@[i] EXCEPT !.name = @ \o suffix]]]
    IN
    { << [name |-> "m1", mod |-> Module(c1, y1)],
         [name |-> "m2", mod |-> Renamed(Module(c2, y2), "_2")] >> :
        c1 \in PairCells("m2"), c2 \in PairCells("m1"),
        y1 \in { <<5, 6>> }, y2 \in { <<5, 6>>, <<5, B0>> } }

---------------------------------------------------------------------------
(* The calls of yosys2digitaljs on one object                              *)

Start ==
    /\ data0 = data
    /\ run = 1
    /\ pc = "find_net_names"
    /\ mi = 1
    /\ pos = 1
    /\ nets = <<>>
    /\ netnames = <<>>
    /\ bits = <<>>
    /\ devnets = <<>>
    /\ n = 0
    /\ pn = 0
    /\ devices = <<>>
    /\ connectors = <<>>
    /\ warnings = <<>>
    /\ out = <<>>
    /\ tie = <<>>
    /\ toporder = <<>>
    /\ output = <<>>
    /\ err = "none"
    /\ calls = <<>>

Init == data \in Designs /\ susp = <<>> /\ Start

\* the calls on a netlist of one module with one cell
InitCells == data \in CellDesigns /\ susp = <<>> /\ Start

mod == data[mi].mod

\* the positions of yosys_to_digitaljs_mod
ModPcs == {"find_net_names", "ports", "cells", "group", "constants", "slices", "connections"}

\* the variables of yosys_to_digitaljs_mod become those of s; an exception ends the call
Commit(s, next) ==
    /\ nets' = s.nets
    /\ netnames' = s.netnames
    /\ bits' = s.bits
    /\ devnets' = s.devnets
    /\ n' = s.n
    /\ pn' = s.pn
    /\ devices' = s.devices
    /\ connectors' = s.connectors
    /\ warnings' = s.warnings
    /\ err' = s.err
    /\ pc' = IF Ok(s) THEN next ELSE "thrown"

\* the loop that follows the loop over the ports
AfterPorts == IF Len(mod.cells) > 0 THEN "cells" ELSE "group"

FindNetNames ==
    /\ pc = "find_net_names"
    /\ Commit([Cv EXCEPT !.netnames = find_net_names(<<>>, mod.netnames, 1)],
              IF Len(mod.ports) > 0 THEN "ports" ELSE AfterPorts)
    /\ pos' = 1
    /\ UNCHANGED <<data, data0, run, mi, out, tie, toporder, output, calls, susp>>

AddPort ==
    /\ pc = "ports"
    /\ Commit(add_port(Cv, mod.ports[pos]),
              IF pos < Len(mod.ports) THEN "ports" ELSE AfterPorts)
    /\ pos' = IF pos < Len(mod.ports) THEN pos + 1 ELSE 1
    /\ UNCHANGED <<data, data0, run, mi, out, tie, toporder, output, calls, susp>>

\* one iteration of "Add gates"; what it does to cell.connections stays in obj
AddGate ==
    /\ pc = "cells"
    /\ LET s == add_gate([Cv EXCEPT !.cell = mod.cells[pos]], data, mi)
       IN /\ Commit(s, IF pos < Len(mod.cells) THEN "cells" ELSE "group")
          /\ data' = [data EXCEPT ![mi].mod.cells[pos] = s.cell]
    /\ pos' = IF pos < Len(mod.cells) THEN pos + 1 ELSE 1
    /\ UNCHANGED <<data0, run, mi, out, tie, toporder, output, calls, susp>>

GroupBits ==
    /\ pc = "group"
    /\ Commit(group_bits(Cv), "constants")
    /\ UNCHANGED <<data, data0, run, mi, pos, out, tie, toporder, output, calls, susp>>

AddConstants ==
    /\ pc = "constants"
    /\ Commit(add_constants(Cv), "slices")
    /\ UNCHANGED <<data, data0, run, mi, pos, out, tie, toporder, output, calls, susp>>

SelectBits ==
    /\ pc = "slices"
    /\ Commit(select_bits(Cv), "connections")
    /\ UNCHANGED <<data, data0, run, mi, pos, out, tie, toporder, output, calls, susp>>

GenerateConnections ==
    /\ pc = "connections"
    /\ Commit(generate_connections(Cv), "return mout")
    /\ UNCHANGED <<data, data0, run, mi, pos, out, tie, toporder, output, calls, susp>>

\* return mout; out[name] = ...; and the next module, if any, starts afresh
ReturnMod ==
    /\ pc = "return mout"
    /\ out' = Append(out, [name |-> data[mi].name,
                           graph |-> [devices |-> devices, connectors |-> connectors]])
    /\ pc' = IF mi < Len(data) THEN "find_net_names" ELSE "topsort"
    /\ mi' = IF mi < Len(data) THEN mi + 1 ELSE mi
    /\ pos' = 1
    /\ nets' = <<>>
    /\ netnames' = <<>>
    /\ bits' = <<>>
    /\ devnets' = <<>>
    /\ n' = 0
    /\ pn' = 0
    /\ devices' = <<>>
    /\ connectors' = <<>>
    /\ warnings' = <<>>
    /\ UNCHANGED <<data, data0, run, tie, toporder, output, err, calls, susp>>

\* const toporder = topsort(module_deps(obj)); a later call sorts as the first one did
Topsort ==
    /\ pc = "topsort"
    /\ LET edges == module_deps(data)
       IN IF TopsortThrows(edges)
          THEN /\ err' = "Circular chain found"
               /\ pc' = "thrown"
               /\ UNCHANGED <<toporder, tie>>
          ELSE /\ toporder' \in TopsortResults(edges)
               /\ run > 1 => toporder' = tie
               /\ tie' = toporder'
               /\ pc' = "assemble"
               /\ UNCHANGED err
    /\ UNCHANGED <<data, data0, run, mi, pos, nets, netnames, bits, devnets, n, pn,
                   devices, connectors, warnings, out, output, calls, susp>>

\* the two pops, the output object and the loop over toporder; return output
Assemble ==
    /\ pc = "assemble"
    /\ output' = assemble(out, toporder)
    /\ pc' = "returned"
    /\ UNCHANGED <<data, data0, run, mi, pos, nets, netnames, bits, devnets, n, pn,
                   devices, connectors, warnings, out, tie, toporder, err, calls, susp>>

\* what a call that has ended gave its caller
Outcome == [status |-> pc, err |-> err, output |-> output]

\* the caller calls yosys2digitaljs again on the object it passed before
CallAgain ==
    /\ pc \in {"returned", "thrown"}
    /\ run < MaxRuns
    /\ calls' = Append(calls, Outcome)
    /\ run' = run + 1
    /\ pc' = "find_net_names"
    /\ mi' = 1
    /\ pos' = 1
    /\ nets' = <<>>
    /\ netnames' = <<>>
    /\ bits' = <<>>
    /\ devnets' = <<>>
    /\ n' = 0
    /\ pn' = 0
    /\ devices' = <<>>
    /\ connectors' = <<>>
    /\ warnings' = <<>>
    /\ out' = <<>>
    /\ toporder' = <<>>
    /\ output' = <<>>
    /\ err' = "none"
    /\ UNCHANGED <<data, data0, tie, susp>>

Next ==
    \/ FindNetNames
    \/ AddPort
    \/ AddGate
    \/ GroupBits
    \/ AddConstants
    \/ SelectBits
    \/ GenerateConnections
    \/ ReturnMod
    \/ Topsort
    \/ Assemble
    \/ CallAgain

Spec == Init /\ [][Next]_vars

SpecCells == InitCells /\ [][Next]_vars

---------------------------------------------------------------------------
(* The yosys_to_digitaljs_mod calls of one netlist, run in any order and   *)
(* interleaved step by step                                                *)

\* every module's call is yet to start; any of them runs first
InitInterleaved ==
    /\ data \in PairDesigns
    /\ susp = [j \in 1..Len(data) |-> [cv |-> NewCall, pc |-> "find_net_names", pos |-> 1]]
    /\ Start

\* a call that continues with the netnames map of the call that ran before it
ResumeSharedNames(j) == [susp[j] EXCEPT !.cv.netnames = netnames]

\* the call for module j that waits: a call continues with the variables it had
Resume(j) == susp[j]

\* the module whose call runs becomes j
Load(j) ==
    /\ Commit(Resume(j).cv, Resume(j).pc)
    /\ pos' = Resume(j).pos
    /\ mi' = j

\* the running call waits, and the call of another module runs
Yield ==
    /\ pc \in ModPcs
    /\ \E j \in 1..Len(data) : j # mi /\ susp[j].pc \in ModPcs /\ Load(j)
    /\ susp' = [susp EXCEPT ![mi] = [cv |-> Cv, pc |-> pc, pos |-> pos]]
    /\ UNCHANGED <<data, data0, run, out, tie, toporder, output, calls>>

\* return mout; out[name] = ...; a call that has not returned runs, if there is one
ReturnInterleaved ==
    /\ pc = "return mout"
    /\ out' = Append(out, [name |-> data[mi].name,
                           graph |-> [devices |-> devices, connectors |-> connectors]])
    /\ susp' = [susp EXCEPT ![mi] = [cv |-> NewCall, pc |-> "returned", pos |-> 1]]
    /\ IF \E j \in 1..Len(data) : j # mi /\ susp[j].pc \in ModPcs
       THEN \E j \in 1..Len(data) : j # mi /\ susp[j].pc \in ModPcs /\ Load(j)
       ELSE /\ pc' = "all returned"
            /\ UNCHANGED <<mi, pos, nets, netnames, bits, devnets, n, pn, devices,
                           connectors, warnings, err>>
    /\ UNCHANGED <<data, data0, run, tie, toporder, output, calls>>

NextInterleaved ==
    \/ FindNetNames
    \/ AddPort
    \/ AddGate
    \/ GroupBits
    \/ AddConstants
    \/ SelectBits
    \/ GenerateConnections
    \/ Yield
    \/ ReturnInterleaved

SpecInterleaved == InitInterleaved /\ [][NextInterleaved]_vars

---------------------------------------------------------------------------
(* Properties of one module conversion                                     *)

\* the cell the next iteration of "Add gates" lowers
NextCell == mod.cells[pos]

\* the vector k is the key of a net that has a source
Sourced(k) == \E i \in 1..Len(nets) : nets[i].key = k /\ nets[i].source # NoPort

\* the cell types the dispatch at the end of "Add gates" wires
Wired(type) == HasPortmap(data, type) \/ type \in {"$pmux", "$mem", "$mem_v2", "$lut"}

\* the next iteration of "Add gates" reaches the wiring of a cell that drives,
\* on one of its output ports, a vector whose net already has a source
DrivesSourced ==
    /\ pc = "cells"
    /\ Wired(NextCell.type)
    /\ AssertedConns(NextCell) \subseteq DOMAIN NextCell.connections
    /\ Asserts(NextCell)
    /\ \E p \in DOMAIN NextCell.connections :
          /\ Dir(NextCell, p) = "output"
          /\ NextCell.connections[p] # <<>>
          /\ Sourced(NextCell.connections[p])

\* a step of a module conversion keeps the nets and their sources, and ends the
\* conversion where a cell drives a net that has a source
SingleSourceStep ==
    pc \in ModPcs =>
        /\ \A i \in 1..Len(nets) :
              /\ i <= Len(nets')
              /\ nets'[i].key = nets[i].key
              /\ nets[i].source # NoPort => nets'[i].source = nets[i].source
        /\ \A i, j \in 1..Len(nets') : nets'[i].key = nets'[j].key => i = j
        /\ DrivesSourced => (pc' = "thrown" /\ err' = "Multiple sources driving net")

\* C1: within one module conversion the nets are keyed by their bit vector, a
\* net's source, once set, is never replaced, and a cell that drives a vector
\* whose net has a source ends the conversion with 'Multiple sources driving net'
C1_SingleSource == [][SingleSourceStep]_vars

\* a conversion was ended by a second source for a net that kept its first one
C1_Witness ==
    /\ pc = "thrown"
    /\ err = "Multiple sources driving net"
    /\ \E i \in 1..Len(nets) : nets[i].source # NoPort /\ nets[i].key = <<2, 3>>

\* the connectors whose to is the device port t
ConnectorsTo(t) == {i \in 1..Len(connectors) : connectors[i].to = t}

\* C2: the connection pass never throws, and when the module conversion returns,
\* every net without a source was reported as undriven and no connector leads
\* to any of its targets, while every target of a driven net has its connector
C2_UndrivenDropped ==
    /\ pc = "return mout" =>
          /\ err = "none"
          /\ \A i \in 1..Len(nets) :
                IF nets[i].source = NoPort
                THEN /\ nets[i].key \in Range(warnings)
                     /\ \A t \in Range(nets[i].targets) : ConnectorsTo(t) = {}
                ELSE /\ nets[i].key \notin Range(warnings)
                     /\ \A t \in Range(nets[i].targets) : ConnectorsTo(t) # {}
    /\ pc = "thrown" /\ err \notin {"none", "Circular chain found"} =>
          warnings = <<>> /\ connectors = <<>>

\* a conversion returns with an undriven net that has a target
C2_Witness ==
    /\ pc = "return mout"
    /\ \E i \in 1..Len(nets) : nets[i].source = NoPort /\ nets[i].targets # <<>>
    /\ connectors # <<>>

\* the number k of the port name `in${k}`
InPortNum(p) == CHOOSE k \in 0..8 : InPort(k) = p

RECURSIVE Sum(_)
Sum(q) == IF q = <<>> THEN 0 ELSE q[1] + Sum(Tail(q))

\* the width that the attributes of device dev declare for its port p; a
\* sub-circuit's port has the width of the port of the module it instantiates
PortWidth(dev, p) ==
    LET t == dev.type
        plain == IF "bits" \in DOMAIN dev /\ "value" \in DOMAIN dev.bits THEN dev.bits.value ELSE 1
    IN CASE t \in {"Input", "Output", "Not", "Repeater", "And", "Or", "Xor", "Xnor", "Nand", "Nor"} -> plain
         [] t \in {"AndReduce", "OrReduce", "XorReduce", "XnorReduce", "NorReduce", "NandReduce"} ->
                IF p = "in" THEN plain ELSE 1
         [] t \in {"Eq", "Ne", "Lt", "Le", "Gt", "Ge"} -> IF p = "out" THEN 1 ELSE dev.bits[p]
         [] t \in {"Negation", "UnaryPlus", "Addition", "Subtraction", "Multiplication",
                   "Division", "Modulo", "Power", "ShiftLeft", "ShiftRight"} -> dev.bits[p]
         [] t \in {"Mux", "Mux1Hot"} -> IF p = "sel" THEN dev.bits.sel ELSE dev.bits["in"]
         [] t = "Dff" -> IF p \in {"in", "out", "set", "clr", "ain"} THEN plain ELSE 1
         [] t = "Memory" -> IF p = "rd0addr" THEN dev.abits ELSE plain
         [] t \in {"ZeroExtend", "SignExtend"} ->
                IF p = "in" THEN dev.extend.input ELSE dev.extend.output
         [] t = "BusGroup" -> IF p = "out" THEN Sum(dev.groups) ELSE dev.groups[InPortNum(p) + 1]
         [] t = "BusSlice" -> IF p = "in" THEN dev.slice.total ELSE dev.slice.count
         [] t = "Constant" -> Len(dev.constant)
         [] t = "Subcircuit" ->
                LET ports == ModuleOf(data, dev.celltype).ports
                IN Len(ports[CHOOSE i \in 1..Len(ports) : ports[i].name = p].bits)

\* the device port dp is a port of a device of the module, of width w
Exposes(dp, w) ==
    /\ dp.id \in 0..(Len(devices) - 1)
    /\ PortWidth(devices[dp.id + 1], dp.port) = w

ConnectorsFrom(id) == {i \in 1..Len(connectors) : connectors[i].from.id = id}

\* C4: when the module conversion returns, every Constant device is the from of
\* at most one connector, and every connector of a net that a Constant drives
\* comes from a Constant of its own that holds the payload of the net's Constant
C4_ConstantReplicated ==
    pc = "return mout" =>
        /\ \A id \in 0..(Len(devices) - 1) :
              devices[id + 1].type = "Constant" => Cardinality(ConnectorsFrom(id)) <= 1
        /\ \A i \in 1..Len(nets) :
              (nets[i].source # NoPort /\ devices[nets[i].source.id + 1].type = "Constant") =>
                  \A t \in Range(nets[i].targets) :
                      \A k \in ConnectorsTo(t) :
                          /\ devices[connectors[k].from.id + 1].type = "Constant"
                          /\ devices[connectors[k].from.id + 1].constant =
                                 devices[nets[i].source.id + 1].constant

\* a conversion returns with a net that a Constant drives and that has two targets
C4_Witness ==
    /\ pc = "return mout"
    /\ \E i \in 1..Len(nets) :
          /\ nets[i].source # NoPort
          /\ devices[nets[i].source.id + 1].type = "Constant"
          /\ Len(nets[i].targets) >= 2

---------------------------------------------------------------------------
(* Properties of the assembled output                                      *)

\* some cell of module B of d has type A
Instantiates(d, B, A) == \E c \in Range(ModuleOf(d, B).cells) : c.type = A

RECURSIVE Users(_, _, _)
\* the modules that instantiate a module of S, directly or through at most k more modules
Users(d, S, k) ==
    LET up == {B \in ModuleNames(d) : \E A \in S : Instantiates(d, B, A)}
    IN IF k = 0 THEN up ELSE up \cup Users(d, up, k - 1)

\* no module of d instantiates itself, directly or through other modules
Acyclic(d) == \A m \in ModuleNames(d) : m \notin Users(d, {m}, Len(d))

\* the modules of d that no cell instantiates
Tops(d) == {m \in ModuleNames(d) : \A B \in ModuleNames(d) : ~Instantiates(d, B, m)}

\* the keys of output.subcircuits in the order of their insertion
SubcircuitNames == [i \in 1..Len(output.subcircuits) |-> output.subcircuits[i].name]

\* what the conversion of module m returned
Converted(m) == out[CHOOSE k \in 1..Len(out) : data[k].name = m].graph

\* C5: for an acyclic netlist with one module that no cell instantiates, the
\* output returned holds the devices and connectors of that module's converted
\* graph, and its subcircuits are all the other modules and no others, each
\* once, under its name and with its own converted graph
C5_TopAndSubcircuits ==
    (pc = "returned" /\ Acyclic(data) /\ Cardinality(Tops(data)) = 1) =>
        LET top == CHOOSE m \in Tops(data) : TRUE
        IN /\ Len(out) = Len(data)
           /\ output.devices = Converted(top).devices
           /\ output.connectors = Converted(top).connectors
           /\ Range(SubcircuitNames) = ModuleNames(data) \ {top}
           /\ Len(SubcircuitNames) = Len(data) - 1
           /\ \A i \in 1..Len(output.subcircuits) :
                 output.subcircuits[i].graph = Converted(output.subcircuits[i].name)

\* a netlist of three modules, two of them instantiated, has been assembled
C5_Witness ==
    /\ pc = "returned"
    /\ Acyclic(data)
    /\ Cardinality(Tops(data)) = 1
    /\ Len(output.subcircuits) = 2
    /\ output.devices # <<>>

\* C6: in every output returned, the sub-circuits were inserted in the sorted
\* order followed by the module chosen as top, every module is in that order
\* once, and a module is in it before every other module that instantiates it
C6_DependencyOrder ==
    pc = "returned" =>
        LET sorted == SubcircuitNames \o <<toporder[Len(toporder) - 1]>>
        IN /\ sorted \o <<"Infinity">> = toporder
           /\ Range(sorted) = ModuleNames(data)
           /\ Len(sorted) = Len(data)
           /\ \A i, j \in 1..Len(sorted) :
                 (sorted[i] # sorted[j] /\ Instantiates(data, sorted[j], sorted[i])) => i < j

\* an output was returned for a top module with two sub-circuits, the second of
\* which instantiates the first
C6_Witness ==
    /\ pc = "returned"
    /\ Len(output.subcircuits) = 2
    /\ Instantiates(data, SubcircuitNames[2], SubcircuitNames[1])
    /\ Instantiates(data, toporder[Len(toporder) - 1], SubcircuitNames[1])

\* C7: an output is returned only for a netlist in which no module instantiates
\* itself, directly or through other modules
C7_CycleSurfaced == pc = "returned" => Acyclic(data)

\* C8: a second call on the object the first call was given ends as the first
\* call did, with the same devices, connectors and sub-circuits in the same order
C8_Idempotent ==
    (run = 2 /\ pc \in {"returned", "thrown"}) =>
        /\ pc = calls[1].status
        /\ err = calls[1].err
        /\ pc = "returned" => output = calls[1].output

\* C9: the netlist object is, at every point of every conversion, the value it
\* had when it was passed to the first call
C9_InputUnchanged == run = 1 => data = data0

\* the bits of the vector k are, in the provenance table, the bits 0, 1, ...
\* of the port p of device id
DrivenFromZero(k, id, p) ==
    \A j \in 1..Len(k) :
        k[j] \in DOMAIN bits /\ bits[k[j]] = [id |-> id, port |-> p, num |-> j - 1]

\* the device ports that the provenance table names
PrimaryPorts == {Port(bits[b].id, bits[b].port) : b \in DOMAIN bits}

\* C10: when the module conversion returns, a net with targets whose bits all
\* come from one primary device port, at the indices 0, 1, ... of that port,
\* has that device port as its source
C10_DirectConnection ==
    pc = "return mout" =>
        \A i \in 1..Len(nets) : \A dp \in PrimaryPorts :
            (nets[i].targets # <<>> /\ DrivenFromZero(nets[i].key, dp.id, dp.port)) =>
                nets[i].source = dp

\* C10, amended: when the module conversion returns, a net with targets whose
\* bits are all the bits of one primary device port, in the order of that port
\* (the indices 0, 1, ... up to the width of the port), has that device port as
\* its source
C10_WholePortDirect ==
    pc = "return mout" =>
        \A i \in 1..Len(nets) : \A dp \in PrimaryPorts :
            (/\ nets[i].targets # <<>>
             /\ DrivenFromZero(nets[i].key, dp.id, dp.port)
             /\ Len(nets[i].key) = Len(devnets[dp.id + 1][dp.port])) =>
                nets[i].source = dp

\* a conversion returns with the two bits of a cell's output wired to the
\* output port of the module
C10_Witness ==
    /\ pc = "return mout"
    /\ \E i \in 1..Len(nets) : \E dp \in PrimaryPorts :
          /\ nets[i].targets # <<>>
          /\ Len(nets[i].key) = 2
          /\ DrivenFromZero(nets[i].key, dp.id, dp.port)
          /\ Len(nets[i].key) = Len(devnets[dp.id + 1][dp.port])
          /\ devices[dp.id + 1].type \notin {"Input", "Output"}
          /\ \E t \in Range(nets[i].targets) : devices[t.id + 1].type = "Output"


\* a step of "Add gates": a cell that nothing wires ends the conversion with the
\* error that carries its type; a cell of a module's type adds a Subcircuit device
\* of that celltype, and its type is never the error
UnwiredCellStep ==
    pc = "cells" =>
        /\ ~Wired(NextCell.type) =>
               pc' = "thrown" /\ err' = "Invalid cell type: " \o NextCell.type
        /\ NextCell.type \in ModuleNames(data) =>
               /\ err' = "none" /\ pc' # "thrown"
               /\ Len(devices') = Len(devices) + 1
               /\ devices'[Len(devices')] =
                      [label |-> NextCell.name, type |-> "Subcircuit",
                       celltype |-> NextCell.type]

\* C11: a cell whose type has no port map (no primitive's, no module's) and no
\* wiring of its own aborts the conversion with 'Invalid cell type: <type>';
\* a cell whose type is a module's name is no error and becomes a Subcircuit
\* device with that celltype
C11_InvalidCellType == [][UnwiredCellStep]_vars

\* a conversion was aborted on a cell of a device type that nothing wires, and
\* another module's conversion returned a graph with a Subcircuit device
C11_UnwiredThrown == pc = "thrown" /\ err = "Invalid cell type: $nand"

C11_SubcircuitEmitted ==
    \E i \in 1..Len(out) : \E j \in 1..Len(out[i].graph.devices) :
        LET dev == out[i].graph.devices[j]
        IN dev.type = "Subcircuit" /\ dev.celltype \in ModuleNames(data)

---------------------------------------------------------------------------
(* Registers                                                               *)

\* the cell of the module under conversion that the device dev was made from
CellOf(dev) == CHOOSE c \in Range(mod.cells) : c.name = dev.label

\* the netnames of the module whose bit vector is Q and that carry an init attribute
InitCarriers(Q) ==
    {e \in Range(mod.netnames) : e.bits = Q /\ "init" \in DOMAIN e.attributes}

\* the MSB-first binary string of w characters of a constant of w bits
BinaryString(param, w) ==
    IF "num" \in DOMAIN param THEN ToBin(param.num % (2 ^ w), w) ELSE param.str

\* the Dff devices of the module under conversion
DffDevices ==
    {dev \in Range(devices) : dev.type = "Dff" /\ "label" \in DOMAIN dev}

\* C12: a Dff device of width W has, when a netname on the vector of its cell's
\* Q carries init, the field initial, which is that attribute as a binary string
\* of W characters; when no such netname carries init, it has no field initial
C12_RegisterInitial ==
    pc \in ModPcs =>
        \A dev \in DffDevices :
            LET c == CellOf(dev)
                W == ParamNum(c, "WIDTH")
                carriers == InitCarriers(c.connections["Q"])
            IN IF carriers = {} THEN "initial" \notin DOMAIN dev
               ELSE /\ "initial" \in DOMAIN dev
                    /\ Len(dev.initial) = W
                    /\ \E e \in carriers : dev.initial = BinaryString(e.attributes["init"], W)

\* the constant param gave the field of a W-bit register its value "as a binary
\* string of W bits": W characters, and for an integer v >= 0 the binary digits of
\* v mod 2^W, highest first, which is also what the string of these W digits gives
WBitString(value, param, W) ==
    /\ Len(value) = W
    /\ "num" \in DOMAIN param =>
           /\ value = ToBin(param.num % (2 ^ W), W)
           /\ value = decode_json_constant(JStr(ToBin(param.num % (2 ^ W), W)), W)

\* C16: arst_value, srst_value and initial of a Dff device of width W have W
\* characters, whether the constant they come from is an integer or a binary
\* string; an integer v >= 0 gives the binary digits of v mod 2^W, highest first,
\* padded with '0', as the string of W characters of the same value does
C16_ValueWidth ==
    pc \in ModPcs =>
        \A dev \in DffDevices :
            LET c == CellOf(dev)
                W == ParamNum(c, "WIDTH")
            IN /\ "arst_value" \in DOMAIN dev =>
                      WBitString(dev.arst_value, c.parameters["ARST_VALUE"], W)
               /\ "srst_value" \in DOMAIN dev =>
                      WBitString(dev.srst_value, c.parameters["SRST_VALUE"], W)
               /\ "initial" \in DOMAIN dev =>
                      \E e \in InitCarriers(c.connections["Q"]) :
                          /\ dev.initial = decode_json_constant(e.attributes["init"], W)
                          /\ WBitString(dev.initial, e.attributes["init"], W)

---------------------------------------------------------------------------
(* Names of nets                                                           *)

\* the netnames of the module, in the order of their declaration, that are not
\* hidden and whose bits are the vector k
PublicNames(k) ==
    SelectSeq(mod.netnames, LAMBDA e : e.hide_name = 0 /\ e.bits = k)

\* the display name of the net of the vector k
DisplayName(k) == IF PublicNames(k) = <<>> THEN NoName ELSE PublicNames(k)[1].name

\* the connector c carries the name nm, or no name when nm is no name
Carries(c, nm) ==
    IF nm = NoName THEN "name" \notin DOMAIN c ELSE "name" \in DOMAIN c /\ c.name = nm

\* C13: the name of a net is the first of the netnames of its vector that is not
\* hidden (no name where there is none), in every phase of the conversion, and
\* every connector made for the net carries this name (no name for an unnamed net)
C13_NetDisplayName ==
    pc \in ModPcs \cup {"return mout"} =>
        /\ \A i \in 1..Len(nets) : nets[i].name = DisplayName(nets[i].key)
        /\ \A j \in 1..Len(connectors) :
               \E i \in 1..Len(nets) :
                   /\ connectors[j].to \in Range(nets[i].targets)
                   /\ Carries(connectors[j], DisplayName(nets[i].key))
        /\ pc = "return mout" =>
               \A i \in 1..Len(nets) :
                   nets[i].source # NoPort =>
                       \A t \in Range(nets[i].targets) :
                           \E j \in 1..Len(connectors) : connectors[j].to = t

\* a graph is about to be returned in which the net of a vector that has a hidden
\* netname first and two netnames after it gave its connector the name "a",
\* and another connector has no name
C13_Witness ==
    /\ pc = "return mout"
    /\ \E i \in 1..Len(nets) :
           /\ Len(PublicNames(nets[i].key)) = 2
           /\ \E e \in Range(mod.netnames) : e.hide_name # 0 /\ e.bits = nets[i].key
           /\ \E j \in 1..Len(connectors) :
                  connectors[j].to \in Range(nets[i].targets) /\ Carries(connectors[j], "a")
    /\ \E j \in 1..Len(connectors) : "name" \notin DOMAIN connectors[j]

---------------------------------------------------------------------------
(* Independence of the module conversions                                  *)

\* the netlist d with nothing of the modules other than m but their ports (which
\* are what the port-map table has of them)
Alone(d, m) ==
    [j \in 1..Len(d) |->
        IF j = m THEN d[j]
        ELSE [name |-> d[j].name,
              mod |-> [ports |-> d[j].mod.ports, cells |-> <<>>, netnames |-> <<>>]]]

\* the graph of module m converted from start to end with no other call running
SequentialGraph(m) ==
    LET s == yosys_to_digitaljs_mod(Alone(data0, m), m)
    IN [devices |-> s.devices, connectors |-> s.connectors]

\* C14: whatever the order and the interleaving of the calls of
\* yosys_to_digitaljs_mod, the graph a call returns (devices from dev0 on, and
\* connectors) is the graph of the module converted alone from its own ports,
\* cells and netnames and the port-map table
C14_Independent ==
    /\ pc = "return mout" =>
           [devices |-> devices, connectors |-> connectors] = SequentialGraph(mi)
    /\ \A i \in 1..Len(out) :
           \E m \in 1..Len(data) :
               data[m].name = out[i].name /\ out[i].graph = SequentialGraph(m)

\* both calls have returned, the second module's before the first module's, and
\* the two graphs have connectors and are not the same
C14_Witness ==
    /\ pc = "all returned"
    /\ Len(out) = 2
    /\ out[1].name = "m2"
    /\ out[1].graph # out[2].graph
    /\ Len(out[1].graph.connectors) > 0 /\ Len(out[2].graph.connectors) > 0

---------------------------------------------------------------------------
(* Memories                                                                *)

\* the Memory devices of the module under conversion that were made from a cell
\* $mem or $mem_v2
MemDevices ==
    {dev \in Range(devices) :
        /\ dev.type = "Memory" /\ "label" \in DOMAIN dev
        /\ CellOf(dev).type \in {"$mem", "$mem_v2"}}

\* a step of "Add gates" on a memory cell without the parameter INIT (the cell
\* is well formed otherwise): no error, and a device with the fields bits, abits,
\* words, offset, rdports and wrports and without the field memdata
MissingInitStep ==
    /\ pc = "cells"
    /\ NextCell.type \in {"$mem", "$mem_v2"}
    /\ "INIT" \notin DOMAIN NextCell.parameters
    => /\ err' = "none" /\ pc' # "thrown"
       /\ Len(devices') = Len(devices) + 1
       /\ LET dev == devices'[Len(devices')]
          IN /\ {"bits", "abits", "words", "offset", "rdports", "wrports"} \subseteq DOMAIN dev
             /\ "memdata" \notin DOMAIN dev

\* C15: a cell $mem or $mem_v2 whose parameters do not have INIT is converted
\* without an error, to a Memory device that has bits, abits, words, offset,
\* rdports and wrports and no memdata
C15_MissingInitTolerated == [][MissingInitStep]_vars

---------------------------------------------------------------------------
(* The grouping pass                                                       *)

\* the nets without a source
Sourceless == {i \in 1..Len(nets) : nets[i].source = NoPort}

RECURSIVE Flatten(_)
\* the concatenation of the runs
Flatten(groups) ==
    IF groups = <<>> THEN <<>> ELSE groups[1] \o Flatten(SubSeq(groups, 2, Len(groups)))

\* the run of groups that holds position j of the vector
RunOf(groups, j) ==
    CHOOSE k \in 1..Len(groups) :
        LET before == Len(Flatten(SubSeq(groups, 1, k - 1)))
        IN before < j /\ j <= before + Len(groups[k])

\* the runs are not empty and partition the vector from left to right
Partition(groups, nbits) ==
    /\ \A k \in 1..Len(groups) : groups[k] # <<>>
    /\ Flatten(groups) = nbits

BothConstants(x, y) == constbit(x) /\ constbit(y)

\* x and y have provenance on the same port of the same device, y next after x
Chained(x, y) ==
    /\ x \in DOMAIN bits /\ y \in DOMAIN bits
    /\ bits[x].id = bits[y].id /\ bits[x].port = bits[y].port
    /\ bits[y].num = bits[x].num + 1

\* neither x nor y has provenance or is a constant
BothUnknown(x, y) ==
    /\ x \notin DOMAIN bits /\ ~constbit(x)
    /\ y \notin DOMAIN bits /\ ~constbit(y)

RunsOf(i) == Groups(bits, nets[i].key)

\* the last run of the i-th net has only '0' bits
ZeroTail(i) == \A x \in Range(RunsOf(i)[Len(RunsOf(i))]) : x = CharBit["0"]

\* the vector of the i-th net without its last run
Prefix(i) == SubSeq(nets[i].key, 1, Len(nets[i].key) - Len(RunsOf(i)[Len(RunsOf(i))]))

\* the net of the vector k after the step
NetAfter(k) == nets'[Lookup(nets', k)]

\* the devices the step adds, by their ids
AddedDevices == {d \in 0..(Len(devices') - 1) : d >= Len(devices)}

\* after the step, device d is a BusGroup over the runs groups that sources the
\* vector k, and run g of groups is the target of its port in<g>
BusGroupOver(d, k, groups) ==
    /\ devices'[d + 1] = [type |-> "BusGroup", groups |-> [g \in 1..Len(groups) |-> Len(groups[g])]]
    /\ NetAfter(k).source = Port(d, "out")
    /\ \A g \in 1..Len(groups) : Port(d, InPort(g - 1)) \in Range(NetAfter(groups[g]).targets)

\* the vectors that need a BusGroup: the nets of two or more runs whose last run
\* is not all '0', and the prefixes of two or more runs of the others
Grouped ==
    {nets[i].key : i \in {j \in Sourceless : Len(RunsOf(j)) >= 2 /\ ~ZeroTail(j)}}
    \cup {Prefix(i) : i \in {j \in Sourceless : Len(RunsOf(j)) > 2 /\ ZeroTail(j)}}

\* the grouping pass as one step
GroupingStep ==
    pc = "group" =>
        /\ pc' = "constants"
        /\ \A i \in Sourceless :
               LET k == nets[i].key
                   runs == RunsOf(i)
               IN Len(runs) >= 2 =>
                      IF ZeroTail(i)
                      THEN /\ \E d \in AddedDevices :
                                 /\ devices'[d + 1] =
                                        [type |-> "ZeroExtend",
                                         extend |-> [output |-> Len(k), input |-> Len(Prefix(i))]]
                                 /\ NetAfter(k).source = Port(d, "out")
                                 /\ Port(d, "in") \in Range(NetAfter(Prefix(i)).targets)
                           /\ Len(runs) > 2 =>
                                  IF Sourced(Prefix(i))
                                  THEN NetAfter(Prefix(i)).source = nets[Lookup(nets, Prefix(i))].source
                                  ELSE \E d \in AddedDevices :
                                           BusGroupOver(d, Prefix(i), SubSeq(runs, 1, Len(runs) - 1))
                      ELSE \E d \in AddedDevices : BusGroupOver(d, k, runs)
        /\ Cardinality({d \in AddedDevices : devices'[d + 1].type = "ZeroExtend"})
               = Cardinality({i \in Sourceless : Len(RunsOf(i)) >= 2 /\ ZeroTail(i)})
        /\ Cardinality({d \in AddedDevices : devices'[d + 1].type = "BusGroup"})
               = Cardinality({k \in Grouped : ~Sourced(k)})
        /\ \A d \in AddedDevices : devices'[d + 1].type \in {"ZeroExtend", "BusGroup"}

\* C18: the grouping pass gives a net without a source, of N bits and two or more
\* runs, whose last run is all '0', one ZeroExtend {input: L, output: N} (L = N less
\* the last run): out sources the net, in targets the prefix of L bits, and with
\* more than two runs the prefix gets a BusGroup over the other runs unless it has
\* a source; the whole vector gets no BusGroup. With a last run that is not all
\* '0' the net is sourced by a BusGroup of the run lengths whose in<k> targets run k
C18_ZeroExtendInference == [][GroupingStep]_vars

\* the grouping pass has inferred a zero-extension for a net of three runs and
\* grouped its prefix, and has grouped a net whose last run is not all '0'
C18_Witness ==
    /\ pc = "constants"
    /\ \E i \in 1..Len(nets) : \E j \in 1..Len(nets) :
           /\ nets[i].source # NoPort /\ nets[j].source # NoPort
           /\ devices[nets[i].source.id + 1].type = "ZeroExtend"
           /\ "label" \notin DOMAIN devices[nets[i].source.id + 1]
           /\ Port(nets[i].source.id, "in") \in Range(nets[j].targets)
           /\ devices[nets[j].source.id + 1].type = "BusGroup"
    /\ \E i \in 1..Len(nets) :
           /\ nets[i].source # NoPort
           /\ devices[nets[i].source.id + 1].type = "BusGroup"
           /\ nets[i].targets # <<>>
           /\ \A t \in Range(nets[i].targets) : devices[t.id + 1].type # "ZeroExtend"

\* The slice pass

\* every bit of the i-th net has a provenance entry, all on one port of one device
OnOnePort(i) ==
    LET k == nets[i].key
    IN /\ \A x \in Range(k) : x \in DOMAIN bits
       /\ \A x \in Range(k) : bits[x].id = bits[k[1]].id /\ bits[x].port = bits[k[1]].port

\* the vector of the port the bits of the i-th net come from
PortVector(i) == devnets[bits[nets[i].key[1]].id + 1][bits[nets[i].key[1]].port]

\* the nets the slice pass has to source
Sliced == {i \in Sourceless : OnOnePort(i)}

\* after the step, device d is the BusSlice of the i-th net
BusSliceOf(d, i) ==
    LET k == nets[i].key
    IN /\ devices'[d + 1] = [type |-> "BusSlice",
                             slice |-> [first |-> bits[k[1]].num,
                                        count |-> Len(k),
                                        total |-> Len(PortVector(i))]]
       /\ NetAfter(k).source = Port(d, "out")
       /\ Port(d, "in") \in Range(NetAfter(PortVector(i)).targets)

\* the slice pass as one step
SliceStep ==
    pc = "slices" =>
        /\ pc' = "connections"
        /\ \A i \in Sliced :
               /\ Cardinality({d \in AddedDevices : BusSliceOf(d, i)}) = 1
               /\ bits[nets[i].key[1]].num + Len(nets[i].key) <= Len(PortVector(i))
               /\ \A j \in 0..(Len(nets[i].key) - 1) :
                      nets[i].key[j + 1] = PortVector(i)[bits[nets[i].key[1]].num + j + 1]
        /\ \A d \in AddedDevices : \E i \in Sliced : BusSliceOf(d, i)

Prescribed(cell) ==
    LET W == ParamNum(cell, "WIDTH")
    IN CASE cell.type = "$mux" -> {<<"A", W>>, <<"B", W>>, <<"Y", W>>}
         [] cell.type \in DffCells -> {<<"D", W>>, <<"Q", W>>}
         [] cell.type \in {"$mem", "$mem_v2"} ->
                {<<"RD_DATA", ParamNum(cell, "RD_PORTS") * W>>,
                 <<"WR_DATA", ParamNum(cell, "WR_PORTS") * W>>,
                 <<"RD_ADDR", ParamNum(cell, "RD_PORTS") * ParamNum(cell, "ABITS")>>,
                 <<"WR_ADDR", ParamNum(cell, "WR_PORTS") * ParamNum(cell, "ABITS")>>}
         [] OTHER -> {}

\* the ports a cell of these classes drives
OutputPorts == {"Y", "Q", "RD_DATA"}

WrongWidth(cell) == \E pw \in Prescribed(cell) : Len(cell.connections[pw[1]]) # pw[2]

WrongDirection(cell) ==
    \E p \in DOMAIN cell.connections :
        Dir(cell, p) # (IF p \in OutputPorts THEN "output" ELSE "input")

\* a mux, a register or a memory
Recognised(cell) == cell.type \in {"$mux", "$mem", "$mem_v2"} \cup DffCells

\* the step that lowers a cell with a structural violation throws, and no graph
\* is returned
StructuralStep ==
    pc = "cells" /\ Recognised(NextCell) /\ (WrongWidth(NextCell) \/ WrongDirection(NextCell))
    => pc' = "thrown" /\ err' # "none" /\ output' = output

\* C20: a cell of a recognised class with a connection whose width differs from
\* the width its parameters prescribe for the port, or with a port of the wrong
\* direction, aborts the conversion of the module with an error, and no output
\* graph is produced
C20_StructuralFatal == [][StructuralStep]_vars

\* The provenance table

\* a module Input device or the device of a cell (the only devices with a label)
PrimaryDevice(dev) == dev.type = "Input" \/ "label" \in DOMAIN dev

\* the entry of bit b names a port of a primary device of the module whose
\* recorded vector has b at the entry's index
ProvenanceSound(b) ==
    /\ bits[b].id \in 0..(Len(devices) - 1)
    /\ PrimaryDevice(devices[bits[b].id + 1])
    /\ bits[b].port \in DOMAIN devnets[bits[b].id + 1]
    /\ bits[b].num + 1 \in 1..Len(devnets[bits[b].id + 1][bits[b].port])
    /\ devnets[bits[b].id + 1][bits[b].port][bits[b].num + 1] = b

ProvenanceInv == \A b \in DOMAIN bits : ProvenanceSound(b)

\* a step of a module conversion removes no entry, and an entry it adds or
\* changes names a primary device; the passes over the nets, which insert only
\* BusGroup, ZeroExtend, Constant and BusSlice devices, leave the table alone
ProvenanceStep ==
    pc \in ModPcs \ {"find_net_names"} =>
        /\ DOMAIN bits \subseteq DOMAIN bits'
        /\ \A b \in DOMAIN bits' :
               (b \notin DOMAIN bits \/ bits'[b] # bits[b])
               => /\ bits'[b].id \in 0..(Len(devices') - 1)
                  /\ PrimaryDevice(devices'[bits'[b].id + 1])
        /\ pc \in {"group", "constants", "slices", "connections"} => bits' = bits

\* C21: after every step of a module conversion each provenance entry
\* bit -> (device, port, index) names a device of the module whose recorded vector
\* for the port has the bit at the index, and the device is a module Input or the
\* device of a cell; the insertion of a BusGroup, ZeroExtend, SignExtend, BusSlice,
\* OrReduce or Constant device never adds, removes or changes an entry
C21_Provenance == []ProvenanceInv /\ [][ProvenanceStep]_vars

\* the passes have inserted devices without a label next to a cell's device, and
\* the table has the entries of the cell's output
C21_Witness ==
    /\ pc = "connections"
    /\ \E b \in DOMAIN bits : "label" \in DOMAIN devices[bits[b].id + 1]
    /\ \E b \in DOMAIN bits : devices[bits[b].id + 1].type = "Input"
    /\ \E t \in {"BusGroup", "ZeroExtend", "BusSlice", "Constant", "OrReduce", "SignExtend"} :
           \E i \in 1..Len(devices) : devices[i].type = t /\ "label" \notin DOMAIN devices[i]
    /\ \E i \in 1..Len(devices) : devices[i].type = "BusSlice"
    /\ \E i \in 1..Len(devices) : devices[i].type = "ZeroExtend" /\ "label" \notin DOMAIN devices[i]

\* Priority multiplexers

\* the lowering of a $pmux cell as one step: d is the device of the cell
PmuxStep ==
    pc = "cells" /\ NextCell.type = "$pmux" /\ Asserts(NextCell) =>
        LET d == Len(devices)
            W == ParamNum(NextCell, "WIDTH")
            S == ParamNum(NextCell, "S_WIDTH")
            A == NextCell.connections["A"]
            B == NextCell.connections["B"]
            Sel == NextCell.connections["S"]
            Y == NextCell.connections["Y"]
            Slice(k) == [i \in 1..W |-> B[(S - k) * W + i]]
        IN /\ err' = "none"
           /\ Port(d, "in0") \in Range(NetAfter(A).targets)
           /\ devnets'[d + 1]["in0"] = A
           /\ devnets'[d + 1]["sel"] = [k \in 1..S |-> Sel[S - k + 1]]
           /\ Port(d, "sel") \in Range(NetAfter(devnets'[d + 1]["sel"]).targets)
           /\ NetAfter(Y).source = Port(d, "out")
           /\ \A j \in 1..Len(Y) : bits'[Y[j]].id = d /\ bits'[Y[j]].port = "out"
           /\ \A k \in 1..S :
                  /\ devnets'[d + 1][InPort(k)] = Slice(k)
                  /\ Port(d, InPort(k)) \in Range(NetAfter(Slice(k)).targets)
           /\ DOMAIN devnets'[d + 1] = {"in0", "sel", "out"} \cup {InPort(k) : k \in 1..S}
           /\ \A j \in 1..Len(B) :
                  Cardinality({k \in 1..S : j \in ((S - k) * W + 1)..((S - k + 1) * W)}) = 1

\* C22: for a $pmux cell with WIDTH = W and S_WIDTH = S, A is the target of in0, the
\* reversed S of sel, Y is the primary source on out, and in<k> (k in 1..S) is the
\* target of the slice B[(S-k)*W .. (S-k+1)*W); the slices are disjoint and cover
\* B, in1 is the highest one, and position k-1 of sel holds the select bit S[S-k]
C22_PmuxWiring == [][PmuxStep]_vars

\* a $pmux of two-bit words and three select bits has been lowered
C22_Witness ==
    /\ pc = "group"
    /\ err = "none"
    /\ \E i \in 1..Len(devices) :
           /\ devices[i].type = "Mux1Hot"
           /\ devnets[i]["sel"] = <<5, 2, 3>>
           /\ devnets[i]["in1"] = <<3, 2>>
           /\ devnets[i]["in3"] = <<2, 3>>

\* Padding of the inputs of bitwise cells

BitwiseCell == NextCell.type \in {"$not", "$and", "$or", "$xor", "$xnor"}

\* the input p of the cell, padded to the width of Y when it is narrower
Padded(p) ==
    LET con == NextCell.connections[p]
        w == Len(NextCell.connections["Y"])
    IN IF Len(con) >= w THEN con
       ELSE con \o [i \in 1..(w - Len(con)) |->
                       IF ParamNum(NextCell, p \o "_SIGNED") # 0 THEN con[Len(con)]
                       ELSE CharBit["0"]]

\* the input p is narrower than Y, and its padded vector is not entirely constant
\* and has no source
Extendable(p) ==
    /\ Len(NextCell.connections[p]) < Len(NextCell.connections["Y"])
    /\ \E x \in Range(Padded(p)) : x \notin ConstChars
    /\ ~Sourced(Padded(p))

\* the extension device of the input p
Extension(p) ==
    [type |-> IF ParamNum(NextCell, p \o "_SIGNED") # 0 THEN "SignExtend" ELSE "ZeroExtend",
     extend |-> [input |-> Len(NextCell.connections[p]),
                 output |-> Len(NextCell.connections["Y"])]]

\* the inputs of the cell that get an extension device, in the order of the
\* lowering: B finds the source that the extension of A has given to its net
Extended ==
    LET extA == IF Extendable("A") THEN <<"A">> ELSE <<>>
    IN IF NextCell.type = "$not" THEN extA
       ELSE IF Extendable("B") /\ ~(Extendable("A") /\ Padded("B") = Padded("A"))
       THEN extA \o <<"B">> ELSE extA

\* the lowering of a bitwise cell as one step: d is the device of the cell
BitwiseStep ==
    pc = "cells" /\ BitwiseCell /\ Asserts(NextCell) /\ err' = "none" =>
        LET d == Len(devices)
        IN /\ Len(devices') = Len(devices) + 1 + Len(Extended)
           /\ \A i \in 1..Len(Extended) :
                  /\ devices'[d + 1 + i] = Extension(Extended[i])
                  /\ NetAfter(Padded(Extended[i])).source = Port(d + i, "out")
                  /\ Port(d + i, "in")
                         \in Range(NetAfter(NextCell.connections[Extended[i]]).targets)
           /\ \A p \in {"A", "B"} \cap DOMAIN NextCell.connections :
                  /\ Len(NextCell.connections[p]) <= Len(NextCell.connections["Y"])
                  /\ Padded(p) # <<>>
                  => \E q \in DOMAIN devnets'[d + 1] : devnets'[d + 1][q] = Padded(p)

\* C23: a bitwise cell ($not, $and, $or, $xor, $xnor) pads an input narrower than Y
\* to Y's width, with copies of its last bit when the input is signed and with '0'
\* otherwise, and inserts a SignExtend (signed) or ZeroExtend (unsigned) device with
\* extend = {input: original width, output: Y width} for the input exactly when
\* the padded vector is not entirely constant and its net has no source when the
\* input is lowered; no other extension device is created by the lowering
C23_BitwisePadding == [][BitwiseStep]_vars

\* a bitwise cell with a signed and an unsigned narrow input has got a SignExtend
\* and a ZeroExtend device
C23_Witness ==
    /\ pc = "group"
    /\ Len(mod.cells) = 1 /\ mod.cells[1].type \in {"$and", "$xnor"}
    /\ \E i \in 1..Len(devices) : \E j \in 1..Len(devices) :
           /\ devices[i] = [type |-> "SignExtend", extend |-> [input |-> 1, output |-> 2]]
           /\ devices[j] = [type |-> "ZeroExtend", extend |-> [input |-> 1, output |-> 2]]

\* a bitwise cell whose two narrow inputs pad to the same vector has got one
\* extension device
C23_SharedExtension ==
    /\ pc = "group"
    /\ Len(mod.cells) = 1 /\ mod.cells[1].type = "$and"
    /\ data0[1].mod.cells[1].connections["A"] = <<4>>
    /\ data0[1].mod.cells[1].connections["B"] = <<4>>
    /\ Cardinality({i \in 1..Len(devices) : "extend" \in DOMAIN devices[i]}) = 1

\* The order of the devices and of the connectors

\* the next device id is the number of devices: dev0, dev1, ... without gaps
IdsDense == pc \in ModPcs => n = Len(devices)

\* the position in the nets, after the step, of the net that device d sources
SourcedAfter(d) == CHOOSE i \in 1..Len(nets') : nets'[i].source = Port(d, "out")

\* device d, added by the grouping pass, is the BusGroup of the prefix of the net
\* that the ZeroExtend d - 1 sources
PrefixGroup(d) ==
    /\ devices'[d + 1].type = "BusGroup"
    /\ d - 1 \in AddedDevices
    /\ devices'[d].type = "ZeroExtend"
    /\ Port(d - 1, "in") \in Range(nets'[SourcedAfter(d)].targets)

\* the position of the net that the grouping pass visits when it adds device d
VisitedFor(d) == IF PrefixGroup(d) THEN SourcedAfter(d - 1) ELSE SourcedAfter(d)

\* the targets of the nets that have a source, net by net
TargetsInOrder ==
    Flatten([i \in 1..Len(nets) |-> IF nets[i].source = NoPort THEN <<>> ELSE nets[i].targets])

\* a step of a module conversion keeps the devices it finds and adds devices in
\* the order of the claim; the three passes over the nets are taken one by one
OrderStep ==
    /\ pc \in ModPcs => \A i \in 1..Len(devices) :
                            i <= Len(devices') /\ devices'[i].type = devices[i].type
    /\ pc = "ports" /\ err' = "none" =>
           /\ Len(devices) = pos - 1
           /\ Len(devices') = pos
           /\ devices'[pos].net = mod.ports[pos].name
           /\ devices'[pos].order = pos - 1
    /\ pc = "cells" /\ err' = "none" =>
           /\ Len(devices') > Len(devices)
           /\ devices'[Len(devices) + 1].label = NextCell.name
           /\ \A d \in AddedDevices \ {Len(devices)} :
                  /\ "label" \notin DOMAIN devices'[d + 1]
                  /\ devices'[d + 1].type \in {"ZeroExtend", "SignExtend", "OrReduce"}
    /\ pc = "group" =>
           /\ \A d \in AddedDevices : devices'[d + 1].type \in {"BusGroup", "ZeroExtend"}
           /\ \A d \in AddedDevices : \A e \in AddedDevices :
                  d < e => VisitedFor(d) <= VisitedFor(e)
    /\ pc = "constants" =>
           /\ \A d \in AddedDevices : devices'[d + 1].type = "Constant"
           /\ \A d \in AddedDevices : \A e \in AddedDevices :
                  d < e => SourcedAfter(d) < SourcedAfter(e)
    /\ pc = "slices" =>
           /\ \A d \in AddedDevices : devices'[d + 1].type = "BusSlice"
           /\ \A d \in AddedDevices : \A e \in AddedDevices :
                  d < e => SourcedAfter(d) < SourcedAfter(e)
    /\ pc = "connections" =>
           /\ \A d \in AddedDevices : devices'[d + 1].type = "Constant"
           /\ Len(connectors') = Len(TargetsInOrder)
           /\ \A c \in 1..Len(connectors') : connectors'[c].to = TargetsInOrder[c]

\* the position in the nets of the net that device d sources
SourcedBy(d) == CHOOSE i \in 1..Len(nets) : nets[i].source = Port(d, "out")

\* the devices of the grouping pass and those of the constant pass are in the
\* order of their nets, as the devices of one pass over the nets would be
OnePassStep ==
    pc = "constants" =>
        \A g \in 0..(Len(devices) - 1) : \A c \in AddedDevices :
            /\ devices[g + 1].type = "BusGroup"
            /\ \A t \in Range(nets[SourcedBy(g)].targets) : devices[t.id + 1].type # "ZeroExtend"
            => SourcedBy(g) < SourcedAfter(c)

OnePassOrderStep == OrderStep /\ OnePassStep

\* C24: the device ids of a module are dev0, dev1, ... without gaps or repeats, in
\* creation order: the I/O devices in the order of the ports (order = own index),
\* then cell by cell the cell's device and the glue devices it induces, and after
\* the last cell the bus-group, extend, constant and slice devices of the final
\* pass over the nets, in net-iteration order; the connectors are in
\* net-iteration order and, within a net, in the order of its targets
C24_DeviceOrder == []IdsDense /\ [][OnePassOrderStep]_vars

\* C24, amended: as C24, but after the last cell come the devices of three passes
\* over the nets, each in net-iteration order (bus-group and zero-extend devices,
\* then constants, then slices), and then the Constant copies made while the
\* connectors are emitted
C24_DeviceOrderByPass == []IdsDense /\ [][OrderStep]_vars

\* a module with a port, a cell with a glue device, devices of the three passes
\* where a BusGroup precedes the Constant of an earlier net, and two connectors
C24_Witness ==
    /\ pc = "return mout"
    /\ Len(connectors) >= 2
    /\ \E g \in 1..Len(devices) : \E c \in 1..Len(devices) : \E i \in 1..Len(nets) :
       \E j \in 1..Len(nets) :
           /\ devices[g].type = "BusGroup" /\ devices[c].type = "Constant"
           /\ g < c /\ j < i
           /\ nets[i].source = Port(g - 1, "out") /\ nets[j].source = Port(c - 1, "out")
    /\ \E b \in 1..Len(devices) : devices[b].type = "BusSlice"
    /\ \E x \in 1..(Len(devices) - 1) :
           "label" \in DOMAIN devices[x] /\ "label" \notin DOMAIN devices[x + 1]
           /\ devices[x + 1].type \in {"ZeroExtend", "SignExtend", "OrReduce"}

\* The contents of memories

\* how many bits INIT has: the characters of a string, the binary digits of a number
InitLength(INIT) == IF "num" \in DOMAIN INIT THEN Len(NumBits(INIT.num)) ELSE Len(INIT.str)

\* bit j of INIT, bit 0 being the least significant one: the last character of a
\* string, bit 0 of a number
InitBit(INIT, j) ==
    IF "num" \in DOMAIN INIT
    THEN (IF (INIT.num \div (2 ^ j)) % 2 = 1 THEN "1" ELSE "0")
    ELSE INIT.str[Len(INIT.str) - j]

\* memdata has S words of W bits, word k has the bits W*k .. W*k+W-1 of INIT with
\* the most significant one first, and one pad character after the end of INIT
DecodedFrom(memdata, INIT, W, S) ==
    /\ Len(memdata) = S
    /\ \A k \in 0..(S - 1) : Len(memdata[k + 1]) = W
    /\ \E l \in {"0", "x"} :
           \A k \in 0..(S - 1) : \A i \in 0..(W - 1) :
               memdata[k + 1][W - i] =
                   IF W * k + i < InitLength(INIT) THEN InitBit(INIT, W * k + i) ELSE l

\* C25: a Memory device of a $mem or $mem_v2 cell with a non-empty INIT has a
\* memdata of exactly SIZE words of WIDTH bits; word k has the bits W*k .. W*k+W-1
\* of INIT, bit 0 being the least significant one (the last character of a string,
\* bit 0 of an integer), the most significant bit first, and the positions after
\* the end of INIT have one pad character, '0' or 'x'
C25_MemdataDecoding ==
    pc \in ModPcs =>
        \A dev \in MemDevices :
            LET P == CellOf(dev).parameters
            IN "INIT" \in DOMAIN P /\ P["INIT"] # JStr(<<>>) =>
                   /\ "memdata" \in DOMAIN dev
                   /\ DecodedFrom(dev.memdata, P["INIT"],
                                  ParamNum(CellOf(dev), "WIDTH"), ParamNum(CellOf(dev), "SIZE"))

\* The connectors of a module

\* no two connectors of cs end on the same port, and no port where a connector
\* ends is the start of a connector
OneConnectorPerPort(cs) ==
    /\ \A i \in 1..Len(cs) : \A j \in 1..Len(cs) : i # j => cs[i].to # cs[j].to
    /\ \A i \in 1..Len(cs) : \A j \in 1..Len(cs) : cs[i].to # cs[j].from

\* C26: in every converted module at most one connector has a given pair (device
\* id, port name) as its `to`, and a port that is the `to` of a connector is never
\* the `from` of a connector
C26_OneConnectorPerPort ==
    /\ OneConnectorPerPort(connectors)
    /\ \A m \in 1..Len(out) : OneConnectorPerPort(out[m].graph.connectors)

\* a converted module where two ports of one device receive a connector each, and
\* where one source port feeds two connectors
C26_Witness ==
    /\ pc = "return mout"
    /\ \E i \in 1..Len(connectors) : \E j \in 1..Len(connectors) :
           /\ connectors[i].to.id = connectors[j].to.id
           /\ connectors[i].to.port # connectors[j].to.port
    /\ \E i \in 1..Len(connectors) : \E j \in 1..Len(connectors) :
           i # j /\ connectors[i].from = connectors[j].from

\* The assertions of the slice pass

\* the vectors of the primary sources of the module as it was passed: the bits of
\* its input ports and the output connections of its cells
PrimaryVectors ==
    LET m == data0[mi].mod
    IN [i \in {<<j, p>> \in (1..Len(m.ports)) \X {"bits"} : m.ports[j].direction = "input"} |->
           m.ports[i[1]].bits]
       @@ [c \in {<<j, p>> \in (1..Len(m.cells)) \X {"Y", "Q", "RD_DATA", "o"} :
                      p \in DOMAIN m.cells[j].connections /\ Dir(m.cells[j], p) = "output"} |->
              m.cells[c[1]].connections[c[2]]]

\* every bit of the module has at most one primary producer
OneProducer ==
    \A u \in DOMAIN PrimaryVectors : \A v \in DOMAIN PrimaryVectors :
        \A i \in 1..Len(PrimaryVectors[u]) : \A j \in 1..Len(PrimaryVectors[v]) :
            PrimaryVectors[u][i] = PrimaryVectors[v][j] => u = v /\ i = j

\* C27: when every bit of the input has at most one primary producer, both
\* assertions of the slice pass hold: a net that has no source when the pass starts
\* has no constant bit, and if all of its bits have provenance they come from the
\* same port of the same device
C27_SliceAssertions ==
    pc = "slices" /\ run = 1 /\ OneProducer =>
        \A i \in Sourceless :
            /\ \A x \in Range(nets[i].key) : x \notin ConstChars /\ GreaterThanOne(x)
            /\ (\A x \in Range(nets[i].key) : x \in DOMAIN bits)
               => \A x \in Range(nets[i].key) :
                      /\ bits[x].id = bits[nets[i].key[1]].id
                      /\ bits[x].port = bits[nets[i].key[1]].port

\* Driven targets

\* the bits that the module as it was passed drives: those of its input ports and
\* of the output connections of its cells
Produced == UNION {Range(PrimaryVectors[v]) : v \in DOMAIN PrimaryVectors}

\* C28: when the conversion of a module ends, a net with a target whose bits are
\* all literal constants or bits of an input port or of an output connection of a
\* cell has a source, and each of its targets has a connector; so for the bits at
\* index 1 and above of the Y of a comparison, reduction or logic cell
C28_DrivenTargetsKept ==
    pc = "return mout" /\ run = 1 =>
        \A i \in 1..Len(nets) :
            /\ nets[i].targets # <<>>
            /\ \A x \in Range(nets[i].key) : x \in ConstChars \/ x \in Produced
            => /\ nets[i].source # NoPort
               /\ \A t \in Range(nets[i].targets) :
                      \E c \in 1..Len(connectors) : connectors[c].to = t

\* Empty vectors

\* add_net_source and add_net_target with an empty vector change nothing
EmptyNoOp ==
    \A d \in 0..(Len(devices) - 1) : \A p \in {"in", "out"} :
        /\ add_net_target(Cv, <<>>, d, p) = Cv
        /\ \A primary \in BOOLEAN : add_net_source(Cv, <<>>, d, p, primary) = Cv

\* the ports of the devices of the module whose vector is empty in the module as
\* it was passed: of its I/O devices and of the devices of its cells
EmptyPorts ==
    LET m == data0[mi].mod
    IN {Port(j - 1, q) : j \in {i \in 1..Len(m.ports) : m.ports[i].bits = <<>>},
                         q \in {"in", "out"}}
       \cup UNION { {Port(d - 1, PrimitivePortmaps[m.cells[j].type][q]) :
                        q \in {r \in DOMAIN m.cells[j].connections :
                                  m.cells[j].connections[r] = <<>>}} :
                    <<j, d>> \in {jd \in (1..Len(m.cells)) \X (1..Len(devices)) :
                                    /\ "label" \in DOMAIN devices[jd[2]]
                                    /\ devices[jd[2]].label = m.cells[jd[1]].name
                                    /\ m.cells[jd[1]].type \in DOMAIN PrimitivePortmaps} }

\* every output connection of every cell of the module is empty
OutputsEmpty ==
    \A v \in DOMAIN PrimaryVectors : v[2] # "bits" => PrimaryVectors[v] = <<>>

\* C29: add_net_source and add_net_target with an empty vector leave the nets, the
\* provenance table, the device-port-net index, the devices and the connectors
\* unchanged; cells with empty output vectors raise no multi-driver error, and a
\* port with an empty vector is in no connector
C29_EmptyVectors ==
    pc \in ModPcs \cup {"return mout", "thrown"} /\ run = 1 =>
        /\ EmptyNoOp
        /\ OutputsEmpty => err # "Multiple sources driving net"
        /\ \A c \in 1..Len(connectors) :
               connectors[c].to \notin EmptyPorts /\ connectors[c].from \notin EmptyPorts

\* a module of two cells with empty outputs and an empty input port has been
\* converted, and the inputs of a cell have connectors
C29_Witness ==
    /\ pc = "return mout" /\ run = 1
    /\ Len(data0[mi].mod.cells) = 2
    /\ OutputsEmpty
    /\ data0[mi].mod.ports[2].bits = <<>>
    /\ Cardinality(EmptyPorts) >= 4
    /\ Len(connectors) >= 2

\* Several drivers of one bit

\* the cell to lower drives, on an output port, an integer bit that has a
\* provenance entry already
DrivesAgain ==
    \E p \in DOMAIN NextCell.connections :
        /\ Dir(NextCell, p) = "output"
        /\ \E x \in Range(NextCell.connections[p]) : x \notin ConstChars /\ x \in DOMAIN bits

\* a step of a module conversion overwrites no provenance entry, and the lowering
\* of a cell that drives a bit again ends with an error
PerBitStep ==
    /\ pc \in ModPcs => \A x \in DOMAIN bits : x \in DOMAIN bits' /\ bits'[x] = bits[x]
    /\ pc = "cells" /\ DrivesAgain => pc' = "thrown" /\ err' # "none"

\* C30: a bit that occurs in the vectors of two different primary source ports of
\* a module makes the conversion fail with a multi-driver error, also when the
\* two vectors differ; a provenance entry, once written, is never overwritten
C30_PerBitDetection == [][PerBitStep]_vars

=============================================================================
